---- MODULE Spec2Model ----
(***************************************************************************)
(* containmint: a model of main() running one Command per process.         *)
(* Strings that the program parses, compares or sorts are sequences of     *)
(* one-character strings; every external process started through           *)
(* run_command is appended to `trace`.                                     *)
(***************************************************************************)
EXTENDS Integers, Sequences, FiniteSets, TLC

\* ---------------------------------------------------------------- bounds
MaxTags == 2
MaxSources == 2
\* The longest string given to ImageReference.parse on its own.
MaxRefLen == 4
\* The longest message given to Display.show on its own, and the most values
\* registered as sensitive before it.
MaxMessage == 3
MaxSensitive == 2

\* ------------------------------------------------------------ characters
\* The characters used by the modelled strings, in code point order.
Alphabet == <<"/", "1", "2", ":", "a", "b", "p", "r", "s", "u">>

Ord(c) == CHOOSE k \in 1..Len(Alphabet) : Alphabet[k] = c

RECURSIVE StrLess(_, _)
\* Python's str.__lt__: lexicographic order by code point.
StrLess(s, t) ==
    IF s = <<>> THEN t # <<>>
    ELSE IF t = <<>> THEN FALSE
    ELSE IF s[1] = t[1] THEN StrLess(Tail(s), Tail(t))
    ELSE Ord(s[1]) < Ord(t[1])

RECURSIVE Sorted(_)
\* sorted(S) for a set S of strings: the ascending sequence of its members.
Sorted(S) ==
    IF S = {} THEN <<>>
    ELSE LET m == CHOOSE x \in S : \A y \in S \ {x} : StrLess(x, y)
         IN <<m>> \o Sorted(S \ {m})

Range(q) == {q[k] : k \in 1..Len(q)}

\* Index of the first occurrence of character c in s, 0 when there is none.
Find(s, c) ==
    IF \E k \in 1..Len(s) : s[k] = c
    THEN CHOOSE k \in 1..Len(s) : s[k] = c /\ \A m \in 1..(k - 1) : s[m] # c
    ELSE 0

\* value.split(sep, 1)
Split1(s, c) ==
    LET k == Find(s, c)
    IN IF k = 0 THEN <<s>>
       ELSE <<SubSeq(s, 1, k - 1), SubSeq(s, k + 1, Len(s))>>

\* ------------------------------------------------------- ImageReference
\* ImageReference.parse: ok is FALSE where the tuple unpacking raises ValueError.
Parse_LastColon(value) ==
    LET a == Split1(value, "/")
    IN IF Len(a) # 2 THEN [ok |-> FALSE, server |-> <<>>, repo |-> <<>>, tag |-> <<>>]
       ELSE IF Find(a[2], ":") = 0 THEN [ok |-> FALSE, server |-> <<>>, repo |-> <<>>, tag |-> <<>>]
       ELSE LET k == CHOOSE n \in 1..Len(a[2]) :
                        a[2][n] = ":" /\ \A m \in (n + 1)..Len(a[2]) : a[2][m] # ":"
            IN [ok |-> TRUE, server |-> a[1],
                repo |-> SubSeq(a[2], 1, k - 1), tag |-> SubSeq(a[2], k + 1, Len(a[2]))]

Parse(value) ==
    LET a == Split1(value, "/")
    IN IF Len(a) # 2 THEN [ok |-> FALSE, server |-> <<>>, repo |-> <<>>, tag |-> <<>>]
       ELSE LET b == Split1(a[2], ":")
            IN IF Len(b) # 2 THEN [ok |-> FALSE, server |-> <<>>, repo |-> <<>>, tag |-> <<>>]
               ELSE [ok |-> TRUE, server |-> a[1], repo |-> b[1], tag |-> b[2]]

\* ImageReference.full_repo
full_repo(ref) == ref.server \o <<"/">> \o ref.repo

\* The image references given on the command line of a merge: two
\* repositories on one server and a second server.
Refs == { <<"a", "/", "r", ":", "1">>,
          <<"a", "/", "s", ":", "1">>,
          <<"b", "/", "r", ":", "1">> }

\* The image references the functions over references are evaluated on: also
\* two tags of one repository, a third server, and a repository path with a
\* second "/".
MoreRefs == Refs \cup { <<"a", "/", "r", ":", "2">>,
                        <<"a", "a", "/", "r", ":", "1">>,
                        <<"a", "/", "r", "/", "s", ":", "1">> }

SeqsUpTo(S, n) == UNION {[1..k -> S] : k \in 1..n}

\* ------------------------------------------------------------ exceptions
NoExc == [type |-> "None", name |-> "", servers |-> <<>>]
Exc(type) == [type |-> type, name |-> "", servers |-> <<>>]

\* The subclasses of ApplicationError.
ApplicationErrors == {"NoContainerEngineDetectedError", "MultipleServersError",
                      "ConfigurationError", "MissingEnvVarError",
                      "ProgramNotFoundError", "SubprocessError"}

RECURSIVE FirstSeen(_, _)
\* The members of q without repetitions, in order of first appearance.
FirstSeen(q, seen) ==
    IF q = <<>> THEN <<>>
    ELSE IF q[1] \in seen THEN FirstSeen(Tail(q), seen)
    ELSE <<q[1]>> \o FirstSeen(Tail(q), seen \cup {q[1]})

\* Mutant of get_server: the servers are listed as first seen, not sorted.
get_server_Unsorted(tags) ==
    LET servers == FirstSeen([k \in 1..Len(tags) |-> Parse(tags[k]).server], {})
    IN IF Len(servers) # 1
       THEN [exc |-> [type |-> "MultipleServersError", name |-> "", servers |-> servers],
             server |-> <<>>]
       ELSE [exc |-> NoExc, server |-> servers[1]]

\* Mutant of get_server: the first server is returned without the uniqueness check.
get_server_First(tags) ==
    [exc |-> NoExc, server |-> Sorted({Parse(tags[k]).server : k \in 1..Len(tags)})[1]]

\* get_server: the common server, or MultipleServersError carrying the sorted servers.
get_server(tags) ==
    LET servers == Sorted({Parse(tags[k]).server : k \in 1..Len(tags)})
    IN IF Len(servers) # 1
       THEN [exc |-> [type |-> "MultipleServersError", name |-> "", servers |-> servers],
             server |-> <<>>]
       ELSE [exc |-> NoExc, server |-> servers[1]]

\* Mutant of should_enable_workaround: only the tags are compared.
should_enable_workaround_TagsOnly(c) ==
    c.push /\ Cardinality({full_repo(Parse(r)) : r \in Range(c.tags)}) > 1

\* Merge.should_enable_workaround
should_enable_workaround(c) ==
    c.push /\ Cardinality({full_repo(Parse(r)) : r \in Range(c.tags \o c.sources)}) > 1


\* ----------------------------------------------------------------- state
VARIABLES
    command,      \* the Command instance: its kind and dataclass fields
    environ,      \* os.environ restricted to the credential variables
    path,         \* the engine programs shutil.which can resolve
    _program,     \* ContainerEngine._program ("" is None)
    sensitive,    \* Display.sensitive
    pc,           \* position of the process
    trace,        \* external processes started so far, in order
    last,         \* exit status of the most recent external process
    exc,          \* the exception in flight (NoExc when none)
    server,       \* Merge.run / Execute.run: the registry server of the session
    credentials,  \* the RegistryCredentials handed to registry_login
    suppress,     \* Merge.run: ManifestPushError is suppressed in the first attempt
    attempt,      \* Merge.run: which call of merge() is active (0 before the first)
    i,            \* Merge.merge: index of the current tag
    j,            \* Merge.apply_work_around: index of the current source
    results,      \* Merge.run: outcome of each finished merge() call
    exit_status,  \* status of the process, -1 while it runs
    fatal,        \* main(): a fatal message was shown
    reads,        \* the positions at which the credential variables were read from environ
    context_dir,  \* the file system at command.context: is it a directory, which files it holds
    config_file,  \* the config file: a JSON document, or Missing
    after,        \* the instance Execute.deserialize returned
    arg,          \* the arguments of the function being evaluated
    ret,          \* what the function being evaluated returned or raised
    tmp,          \* Build.run: the temporary files that exist on disk
    engine_link,  \* the target of the symbolic link at ENGINE_LINK ("" when absent)
    printed,      \* the messages Display.show has printed, in order
    parser_error  \* the message of the argument parser's error ("" when none)

vars == <<command, environ, path, _program, sensitive, pc, trace, last, exc, server,
          credentials, suppress, attempt, i, j, results, exit_status, fatal,
          reads, context_dir, config_file, after,
          arg, ret, tmp, engine_link, printed, parser_error>>

\* The variables of the host and of the functions evaluated on their own.
host_vars == <<arg, ret, tmp, engine_link, printed>>

NoArg == [op |-> "none"]
NoRet == [type |-> "none"]

\* Nothing has been evaluated, created, linked, printed or rejected yet.
InitHost ==
    /\ arg = NoArg
    /\ ret = NoRet
    /\ tmp = {}
    /\ engine_link = ""
    /\ printed = <<>>
    /\ parser_error = ""

\* The variables only the Execute command and its config file use.
execute_vars == <<context_dir, config_file, after>>

USERNAME == "CONTAINMINT_USERNAME"
PASSWORD == "CONTAINMINT_PASSWORD"

\* Values the credential variables may hold (a variable may also be unset).
Usernames == { <<"u">> }
Passwords == { <<"p", "\"", "\\">>, <<>> }

\* The environments: each credential variable is unset or holds one of its values.
EnvironsOver(usernames, passwords) ==
    { e \in UNION { [K -> usernames \cup passwords] : K \in SUBSET {USERNAME, PASSWORD} } :
        /\ USERNAME \in DOMAIN e => e[USERNAME] \in usernames
        /\ PASSWORD \in DOMAIN e => e[PASSWORD] \in passwords }

Environs == EnvironsOver(Usernames, Passwords)

Engines == {"podman", "docker"}

\* Exit statuses an external process may end with.
Statuses == {0, 1}

NoCredentials == [set |-> FALSE, username |-> <<>>, password |-> <<>>]

\* ---------------------------------------------------- RegistryCredentials
\* Mutant of RegistryCredentials.create: the password is looked up first.
RegistryCredentials_create_PasswordFirst(env) ==
    IF PASSWORD \notin DOMAIN env
    THEN [exc |-> [type |-> "MissingEnvVarError", name |-> PASSWORD, servers |-> <<>>],
          credentials |-> [set |-> FALSE, username |-> <<>>, password |-> <<>>]]
    ELSE IF USERNAME \notin DOMAIN env
    THEN [exc |-> [type |-> "MissingEnvVarError", name |-> USERNAME, servers |-> <<>>],
          credentials |-> [set |-> FALSE, username |-> <<>>, password |-> <<>>]]
    ELSE [exc |-> NoExc,
          credentials |-> [set |-> TRUE, username |-> env[USERNAME], password |-> env[PASSWORD]]]

\* RegistryCredentials.create: the credentials read from the environment, or
\* MissingEnvVarError naming the first key whose lookup raised KeyError.
RegistryCredentials_create(env) ==
    IF USERNAME \notin DOMAIN env
    THEN [exc |-> [type |-> "MissingEnvVarError", name |-> USERNAME, servers |-> <<>>],
          credentials |-> NoCredentials]
    ELSE IF PASSWORD \notin DOMAIN env
    THEN [exc |-> [type |-> "MissingEnvVarError", name |-> PASSWORD, servers |-> <<>>],
          credentials |-> NoCredentials]
    ELSE [exc |-> NoExc,
          credentials |-> [set |-> TRUE, username |-> env[USERNAME], password |-> env[PASSWORD]]]

\* ------------------------------------------------------- ContainerEngine
\* One external process: the program, its subcommand, the image or server it
\* names, further arguments, the --username argument, the data on stdin, the
\* --file argument and the option flags.
Cmd(sub, target, extra) ==
    [prog |-> "", sub |-> sub, target |-> target, extra |-> extra,
     username |-> <<>>, data |-> <<>>, file |-> "", flags |-> {}]

\* ContainerEngine.detect: podman first, then docker; "" where it raises.
detect_DockerFirst(which) ==
    IF "docker" \in which THEN "docker"
    ELSE IF "podman" \in which THEN "podman"
    ELSE ""

detect(which) ==
    IF "podman" \in which THEN "podman"
    ELSE IF "docker" \in which THEN "docker"
    ELSE ""

\* ContainerEngine.program: resolve on first access and probe with --version.
\* vstat is the exit status of the probe.
program(vstat) ==
    IF _program # ""
    THEN [exc |-> NoExc, program |-> _program, trace |-> trace, last |-> last]
    ELSE LET found == detect(path)
         IN IF found = ""
            THEN [exc |-> Exc("NoContainerEngineDetectedError"),
                  program |-> "", trace |-> trace, last |-> last]
            ELSE [exc |-> IF vstat # 0 THEN Exc("SubprocessError") ELSE NoExc,
                  program |-> found,
                  trace |-> Append(trace, [Cmd("--version", <<>>, <<>>) EXCEPT !.prog = found]),
                  last |-> vstat]

\* ContainerEngine.run: cstat is the exit status of the command itself.
engine_run(c, vstat, cstat) ==
    LET p == program(vstat)
    IN IF p.exc # NoExc THEN p
       ELSE [exc |-> IF cstat # 0 THEN Exc("SubprocessError") ELSE NoExc,
             program |-> p.program,
             trace |-> Append(p.trace, [c EXCEPT !.prog = p.program]),
             last |-> cstat]


\* ------------------------------------------------------------- commands
MergeCommand(tags, sources, push, login) ==
    [kind |-> "merge", tags |-> tags, sources |-> sources, push |-> push, login |-> login,
     context |-> <<>>, tag |-> <<>>, username |-> <<>>, password |-> <<>>]

MergeCommands(refs) ==
    { MergeCommand(t, s, p, l) : t \in SeqsUpTo(refs, MaxTags), s \in SeqsUpTo(refs, MaxSources),
                                 p \in BOOLEAN, l \in BOOLEAN }

\* The dataclass fields of Execute, as keyword arguments of its constructor.
ExecuteCommand(context, tag, push, login, username, password) ==
    [kind |-> "execute", tags |-> <<>>, sources |-> <<>>, push |-> push, login |-> login,
     context |-> context, tag |-> tag, username |-> username, password |-> password]

\* Execute.__post_init__: keep supplied credentials, and read them from
\* the environment when one is empty and login is set.
Execute_post_init(x, env) ==
    IF x.username # <<>> /\ x.password # <<>>
    THEN [exc |-> NoExc, instance |-> x, read |-> FALSE]
    ELSE IF ~x.login
    THEN [exc |-> NoExc, instance |-> x, read |-> FALSE]
    ELSE LET r == RegistryCredentials_create(env)
         IN [exc |-> r.exc,
             instance |-> [x EXCEPT !.username = r.credentials.username,
                                    !.password = r.credentials.password],
             read |-> TRUE]

CONTAINER_FILES == <<"Containerfile", "Dockerfile">>

\* The container files found in a context directory, in CONTAINER_FILES order.
Matches(dir) ==
    SelectSeq(CONTAINER_FILES, LAMBDA name : name \in dir.files)

\* image_ref: does the argument parser accept the value.
image_ref(value) == Parse(value).ok

\* context_ref: "" when the context is accepted, else the start of the error message.
context_ref_FirstMatch(dir) ==
    IF ~dir.isdir THEN "context must be a directory"
    ELSE IF Len(Matches(dir)) = 0 THEN "missing one of"
    ELSE ""

context_ref(dir) ==
    IF ~dir.isdir THEN "context must be a directory"
    ELSE IF Len(Matches(dir)) = 0 THEN "missing one of"
    ELSE IF Len(Matches(dir)) > 1 THEN "multiple matches"
    ELSE ""

\* ------------------------------------------------- Execute config file
NoInstance == [ExecuteCommand(<<>>, <<>>, FALSE, FALSE, <<>>, <<>>) EXCEPT !.kind = "none"]
NoDirectory == [isdir |-> FALSE, files |-> {}]
Missing == [exists |-> FALSE, doc |-> <<>>]

RECURSIVE JsonEscape(_)
\* json.dump of a str: a quote or a backslash is preceded by a backslash.
JsonEscape(s) ==
    IF s = <<>> THEN <<>>
    ELSE (IF s[1] \in {"\"", "\\"} THEN <<"\\", s[1]>> ELSE <<s[1]>>) \o JsonEscape(Tail(s))

JsonString(s) == <<"\"">> \o JsonEscape(s) \o <<"\"">>

JsonBool(b) == IF b THEN <<"t", "r", "u", "e">> ELSE <<"f", "a", "l", "s", "e">>

\* json.dump(self.__dict__): one member per dataclass field, in field order.
json_dump(x) ==
    << [key |-> "context",  text |-> JsonString(x.context)],
       [key |-> "tag",      text |-> JsonString(x.tag)],
       [key |-> "push",     text |-> JsonBool(x.push)],
       [key |-> "login",    text |-> JsonBool(x.login)],
       [key |-> "username", text |-> JsonString(x.username)],
       [key |-> "password", text |-> JsonString(x.password)] >>

RECURSIVE JsonUnescape(_)
\* The characters between the quotes of a JSON string, escapes resolved.
JsonUnescape(t) ==
    IF t = <<>> THEN <<>>
    ELSE IF t[1] = "\\" /\ Len(t) >= 2 THEN <<t[2]>> \o JsonUnescape(SubSeq(t, 3, Len(t)))
    ELSE <<t[1]>> \o JsonUnescape(Tail(t))

\* json.load of one value: a str, a bool, or not valid JSON.
JsonValue(text) ==
    IF text = JsonBool(TRUE) THEN [type |-> "bool", bool |-> TRUE, str |-> <<>>]
    ELSE IF text = JsonBool(FALSE) THEN [type |-> "bool", bool |-> FALSE, str |-> <<>>]
    ELSE IF Len(text) >= 2 /\ text[1] = "\"" /\ text[Len(text)] = "\""
    THEN [type |-> "str", bool |-> FALSE, str |-> JsonUnescape(SubSeq(text, 2, Len(text) - 1))]
    ELSE [type |-> "invalid", bool |-> FALSE, str |-> <<>>]

\* json.load of the document: the value of the last member with the key.
json_load(doc, key) ==
    LET k == CHOOSE n \in 1..Len(doc) :
                 doc[n].key = key /\ \A m \in (n + 1)..Len(doc) : doc[m].key # key
    IN JsonValue(doc[k].text)

ExecuteFields == {"context", "tag", "push", "login", "username", "password"}
ExecuteRequired == {"context", "tag", "push", "login"}

\* Execute.deserialize: a file that cannot be read or decoded is a
\* ConfigurationError; cls(**config) raises TypeError on missing or
\* unexpected keys, and runs __post_init__ in the deserializing process.
Execute_deserialize(file, env) ==
    LET keys == {file.doc[k].key : k \in 1..Len(file.doc)}
        str(key) == IF key \in keys THEN json_load(file.doc, key).str ELSE <<>>
        bool(key) == json_load(file.doc, key).bool
    IN IF \/ ~file.exists
          \/ \E k \in 1..Len(file.doc) : JsonValue(file.doc[k].text).type = "invalid"
       THEN [exc |-> Exc("ConfigurationError"), instance |-> NoInstance, read |-> FALSE]
       ELSE IF ~(ExecuteRequired \subseteq keys /\ keys \subseteq ExecuteFields)
       THEN [exc |-> Exc("TypeError"), instance |-> NoInstance, read |-> FALSE]
       ELSE Execute_post_init(
                ExecuteCommand(str("context"), str("tag"), bool("push"), bool("login"),
                               str("username"), str("password")), env)

\* ------------------------------------------------------------------ main
\* An exception leaves command.run() (or parse_args) towards main's handler.
Raise(e) ==
    /\ exc' = e
    /\ pc' = "main.except"

\* The message of image_ref's ArgumentTypeError.
TAG_FORMAT_ERROR == "required format is"

\* The errors the argument parser can report for a command line: one for each
\* rejected value. The parser reports the first rejected value in command
\* line order, and the order of the options is the caller's.
ParserErrors_TagOnly(cmd, dir) ==
    IF cmd.kind = "dispatch" THEN {}
    ELSE IF cmd.kind = "merge"
    THEN { TAG_FORMAT_ERROR : r \in { x \in Range(cmd.tags \o cmd.sources) : ~image_ref(x) } }
    ELSE { TAG_FORMAT_ERROR : r \in { x \in {cmd.tag} : ~image_ref(x) } }

ParserErrors(cmd, dir) ==
    IF cmd.kind = "dispatch" THEN {}
    ELSE IF cmd.kind = "merge"
    THEN { TAG_FORMAT_ERROR : r \in { x \in Range(cmd.tags \o cmd.sources) : ~image_ref(x) } }
    ELSE { TAG_FORMAT_ERROR : r \in { x \in {cmd.tag} : ~image_ref(x) } }
         \cup { context_ref(dir) : d \in { x \in {dir} : context_ref(x) # "" } }

\* ArgumentParser.error: report the message and exit with status 2.
ParserExit(message) ==
    /\ parser_error' = message
    /\ exit_status' = 2
    /\ pc' = "exited"

\* parse_args: the arguments are validated by image_ref and context_ref (the
\* parser exits with status 2 on a rejected value), then the Command
\* instance is constructed; constructing Execute runs __post_init__, Merge,
\* Build and Dispatch have none.
ParseArgs ==
    /\ pc = "parse_args"
    /\ IF ParserErrors(command, context_dir) # {}
       THEN /\ \E message \in ParserErrors(command, context_dir) : ParserExit(message)
            /\ UNCHANGED <<command, exc, sensitive, reads>>
       ELSE /\ UNCHANGED parser_error
            /\ IF command.kind = "merge"
               THEN /\ pc' = "Merge.run"
                    /\ UNCHANGED <<command, exc, exit_status, sensitive, reads>>
               ELSE IF command.kind = "build"
               THEN /\ pc' = "Build.run"
                    /\ UNCHANGED <<command, exc, exit_status, sensitive, reads>>
               ELSE IF command.kind = "dispatch"
               THEN /\ pc' = "Dispatch.run"
                    /\ UNCHANGED <<command, exc, exit_status, sensitive, reads>>
               ELSE LET r == Execute_post_init(command, environ)
                    IN /\ reads' = IF r.read THEN Append(reads, pc) ELSE reads
                       /\ IF r.exc # NoExc
                          THEN Raise(r.exc) /\ UNCHANGED <<command, sensitive>>
                          ELSE /\ command' = r.instance
                               /\ sensitive' = IF r.read THEN sensitive \cup {r.instance.password}
                                               ELSE sensitive
                               /\ pc' = "Execute.run"
                               /\ UNCHANGED exc
                       /\ UNCHANGED exit_status
    /\ UNCHANGED <<environ, path, _program, trace, last, server,
                   credentials, suppress, attempt, i, j, results, fatal, execute_vars, host_vars>>

\* main: `except ApplicationError` shows the fatal message and exits with 1;
\* any other exception is not caught and ends the interpreter with status 1.
MainExcept ==
    /\ pc = "main.except"
    /\ fatal' = (exc.type \in ApplicationErrors)
    /\ exit_status' = 1
    /\ pc' = "exited"
    /\ UNCHANGED <<command, environ, path, _program, sensitive, trace, last, exc, server,
                   credentials, suppress, attempt, i, j, results, reads, execute_vars, host_vars, parser_error>>

\* main: command.run() returned.
MainEnd ==
    /\ pc = "main.end"
    /\ exit_status' = 0
    /\ pc' = "exited"
    /\ UNCHANGED <<command, environ, path, _program, sensitive, trace, last, exc, server,
                   credentials, suppress, attempt, i, j, results, fatal, reads, execute_vars, host_vars, parser_error>>

\* ------------------------------------------------------------- Merge.run
\* Merge.run, line 215: the common server of tags + sources.
MergeGetServer ==
    /\ pc = "Merge.run"
    /\ LET r == get_server(command.tags \o command.sources)
       IN IF r.exc # NoExc
          THEN Raise(r.exc) /\ UNCHANGED server
          ELSE /\ server' = r.server
               /\ pc' = "Merge.credentials"
               /\ UNCHANGED exc
    /\ UNCHANGED <<command, environ, path, _program, sensitive, trace, last,
                   credentials, suppress, attempt, i, j, results, exit_status, fatal, reads, execute_vars, host_vars, parser_error>>

\* Merge.run, lines 216-217: credentials from the environment when login is
\* set (the password becomes a sensitive value), then the suppress tuple.
MergeCredentials ==
    /\ pc = "Merge.credentials"
    /\ LET r == IF command.login THEN RegistryCredentials_create(environ)
                ELSE [exc |-> NoExc, credentials |-> NoCredentials]
       IN IF r.exc # NoExc
          THEN Raise(r.exc) /\ UNCHANGED <<credentials, sensitive, suppress>>
          ELSE /\ credentials' = r.credentials
               /\ sensitive' = IF r.credentials.set
                               THEN sensitive \cup {r.credentials.password}
                               ELSE sensitive
               /\ suppress' = should_enable_workaround(command)
               /\ pc' = "registry_login.enter"
               /\ UNCHANGED exc
    /\ reads' = IF command.login THEN Append(reads, pc) ELSE reads
    /\ UNCHANGED <<command, environ, path, _program, trace, last, server,
                   attempt, i, j, results, exit_status, fatal, execute_vars, host_vars, parser_error>>

\* ------------------------------------------------------- registry_login
\* The body of the `with registry_login(...)` statement raised e (or, with
\* e = NoExc, completed or returned): control passes to the finally clause.
LeaveBody(e) ==
    /\ exc' = e
    /\ pc' = "registry_login.exit"

\* Mutant of registry_login: the credentials are ignored on entry.
RegistryLoginEnter_NoLogin ==
    /\ pc = "registry_login.enter"
    /\ IF command.kind = "merge"
       THEN /\ attempt' = 1
            /\ i' = 1
            /\ pc' = "merge.rm"
       ELSE /\ pc' = "Execute.build"
            /\ UNCHANGED <<attempt, i>>
    /\ UNCHANGED <<command, environ, path, _program, sensitive, trace, last, exc, server,
                   credentials, suppress, j, results, exit_status, fatal, reads, execute_vars, host_vars, parser_error>>

\* registry_login up to the yield: log in when credentials were supplied.
\* A failing login raises before the try statement is entered.
RegistryLoginEnter_LoginInsideTry ==
    /\ pc = "registry_login.enter"
    /\ \E vstat \in Statuses, cstat \in Statuses :
         LET c == [Cmd("login", server, <<>>) EXCEPT !.username = credentials.username,
                                                     !.data = credentials.password]
             r == IF credentials.set THEN engine_run(c, vstat, cstat)
                  ELSE [exc |-> NoExc, program |-> _program, trace |-> trace, last |-> last]
         IN /\ _program' = r.program
            /\ trace' = r.trace
            /\ last' = r.last
            /\ IF r.exc # NoExc
               THEN LeaveBody(r.exc) /\ UNCHANGED <<attempt, i>>
               ELSE IF command.kind = "merge"
               THEN /\ attempt' = 1
                    /\ i' = 1
                    /\ pc' = "merge.rm"
                    /\ UNCHANGED exc
               ELSE /\ pc' = "Execute.build"
                    /\ UNCHANGED <<exc, attempt, i>>
    /\ UNCHANGED <<command, environ, path, sensitive, server, credentials, suppress,
                   j, results, exit_status, fatal, reads, execute_vars, host_vars, parser_error>>

RegistryLoginEnter_PasswordArgument ==
    /\ pc = "registry_login.enter"
    /\ \E vstat \in Statuses, cstat \in Statuses :
         LET c == [Cmd("login", server, <<>>) EXCEPT !.username = credentials.username,
                                                     !.extra = <<credentials.password>>]
             r == IF credentials.set THEN engine_run(c, vstat, cstat)
                  ELSE [exc |-> NoExc, program |-> _program, trace |-> trace, last |-> last]
         IN /\ _program' = r.program
            /\ trace' = r.trace
            /\ last' = r.last
            /\ IF r.exc # NoExc
               THEN Raise(r.exc) /\ UNCHANGED <<attempt, i>>
               ELSE IF command.kind = "merge"
               THEN /\ attempt' = 1
                    /\ i' = 1
                    /\ pc' = "merge.rm"
                    /\ UNCHANGED exc
               ELSE /\ pc' = "Execute.build"
                    /\ UNCHANGED <<exc, attempt, i>>
    /\ UNCHANGED <<command, environ, path, sensitive, server, credentials, suppress,
                   j, results, exit_status, fatal, reads, execute_vars, host_vars, parser_error>>

RegistryLoginEnter ==
    /\ pc = "registry_login.enter"
    /\ \E vstat \in Statuses, cstat \in Statuses :
         LET c == [Cmd("login", server, <<>>) EXCEPT !.username = credentials.username,
                                                     !.data = credentials.password]
             r == IF credentials.set THEN engine_run(c, vstat, cstat)
                  ELSE [exc |-> NoExc, program |-> _program, trace |-> trace, last |-> last]
         IN /\ _program' = r.program
            /\ trace' = r.trace
            /\ last' = r.last
            /\ IF r.exc # NoExc
               THEN Raise(r.exc) /\ UNCHANGED <<attempt, i>>
               ELSE IF command.kind = "merge"
               THEN /\ attempt' = 1
                    /\ i' = 1
                    /\ pc' = "merge.rm"
                    /\ UNCHANGED exc
               ELSE /\ pc' = "Execute.build"
                    /\ UNCHANGED <<exc, attempt, i>>
    /\ UNCHANGED <<command, environ, path, sensitive, server, credentials, suppress,
                   j, results, exit_status, fatal, reads, execute_vars, host_vars, parser_error>>

\* Mutant of registry_login: the logout follows the yield without try/finally.
RegistryLoginExit_NoFinally ==
    /\ pc = "registry_login.exit"
    /\ \E vstat \in Statuses, cstat \in Statuses :
         LET r == IF credentials.set /\ exc = NoExc
                  THEN engine_run(Cmd("logout", server, <<>>), vstat, cstat)
                  ELSE [exc |-> NoExc, program |-> _program, trace |-> trace, last |-> last]
             e == IF r.exc # NoExc THEN r.exc ELSE exc
         IN /\ _program' = r.program
            /\ trace' = r.trace
            /\ last' = r.last
            /\ exc' = e
            /\ pc' = IF e # NoExc THEN "main.except" ELSE "main.end"
    /\ UNCHANGED <<command, environ, path, sensitive, server, credentials, suppress,
                   attempt, i, j, results, exit_status, fatal, reads, execute_vars, host_vars, parser_error>>

\* Variant of the finally clause in which the body's exception outlives a
\* failing logout.
RegistryLoginExit_BodyErrorKept ==
    /\ pc = "registry_login.exit"
    /\ \E vstat \in Statuses, cstat \in Statuses :
         LET r == IF credentials.set THEN engine_run(Cmd("logout", server, <<>>), vstat, cstat)
                  ELSE [exc |-> NoExc, program |-> _program, trace |-> trace, last |-> last]
             e == IF exc # NoExc THEN exc ELSE r.exc
         IN /\ _program' = r.program
            /\ trace' = r.trace
            /\ last' = r.last
            /\ exc' = e
            /\ pc' = IF e # NoExc THEN "main.except" ELSE "main.end"
    /\ UNCHANGED <<command, environ, path, sensitive, server, credentials, suppress,
                   attempt, i, j, results, exit_status, fatal, reads, execute_vars, host_vars, parser_error>>

\* registry_login's finally clause: log out when credentials were supplied.
\* A failing logout replaces whatever the body raised.
RegistryLoginExit ==
    /\ pc = "registry_login.exit"
    /\ \E vstat \in Statuses, cstat \in Statuses :
         LET r == IF credentials.set THEN engine_run(Cmd("logout", server, <<>>), vstat, cstat)
                  ELSE [exc |-> NoExc, program |-> _program, trace |-> trace, last |-> last]
             e == IF r.exc # NoExc THEN r.exc ELSE exc
         IN /\ _program' = r.program
            /\ trace' = r.trace
            /\ last' = r.last
            /\ exc' = e
            /\ pc' = IF e # NoExc THEN "main.except" ELSE "main.end"
    /\ UNCHANGED <<command, environ, path, sensitive, server, credentials, suppress,
                   attempt, i, j, results, exit_status, fatal, reads, execute_vars, host_vars, parser_error>>


\* ----------------------------------------------------------- Merge.merge
\* Mutant of Merge.run: ManifestPushError is suppressed whether or not the
\* workaround was predicted.
MergeEnds_Unpredicted(e) ==
    /\ results' = Append(results, IF e = NoExc THEN "ok" ELSE e.type)
    /\ IF e.type = "ManifestPushError" /\ attempt = 1
       THEN /\ pc' = "workaround.pull"
            /\ j' = 1
            /\ UNCHANGED exc
       ELSE /\ exc' = e
            /\ pc' = "registry_login.exit"
            /\ UNCHANGED j

\* Variant of Merge.run without the return of line 222: with the workaround
\* enabled, apply_work_around and the second merge() follow a first merge()
\* that returned as well as one that raised ManifestPushError.
MergeEnds_NoReturn(e) ==
    /\ results' = Append(results, IF e = NoExc THEN "ok" ELSE e.type)
    /\ IF (e = NoExc \/ e.type = "ManifestPushError") /\ attempt = 1 /\ suppress
       THEN /\ pc' = "workaround.pull"
            /\ j' = 1
            /\ UNCHANGED exc
       ELSE /\ LeaveBody(e)
            /\ UNCHANGED j

\* The running merge() call ends: it raised e, or with e = NoExc it returned.
\* Only the first call runs inside contextlib.suppress, which swallows
\* ManifestPushError when the workaround is enabled; apply_work_around follows.
MergeEnds(e) ==
    /\ results' = Append(results, IF e = NoExc THEN "ok" ELSE e.type)
    /\ IF e.type = "ManifestPushError" /\ attempt = 1 /\ suppress
       THEN /\ pc' = "workaround.pull"
            /\ j' = 1
            /\ UNCHANGED exc
       ELSE /\ LeaveBody(e)
            /\ UNCHANGED j

\* The statements for tags[i] are done: the next tag, or merge() returns.
MergeNextTag ==
    IF i < Len(command.tags)
    THEN /\ i' = i + 1
         /\ pc' = "merge.rm"
         /\ UNCHANGED <<exc, j, results>>
    ELSE /\ MergeEnds(NoExc)
         /\ UNCHANGED i

\* merge, lines 230-231: best-effort `manifest rm`; SubprocessError is suppressed.
MergeRm ==
    /\ pc = "merge.rm"
    /\ \E vstat \in Statuses, cstat \in Statuses :
         LET r == engine_run(Cmd("manifest rm", command.tags[i], <<>>), vstat, cstat)
         IN /\ _program' = r.program
            /\ trace' = r.trace
            /\ last' = r.last
            /\ IF r.exc.type \in {"None", "SubprocessError"}
               THEN /\ pc' = "merge.create"
                    /\ UNCHANGED <<exc, j, results>>
               ELSE MergeEnds(r.exc)
    /\ UNCHANGED <<command, environ, path, sensitive, server, credentials, suppress,
                   attempt, i, exit_status, fatal, reads, execute_vars, host_vars, parser_error>>

\* merge, line 233: `manifest create` from all sources; any failure is raised.
MergeCreate_FailureAsPushSignal ==
    /\ pc = "merge.create"
    /\ \E vstat \in Statuses, cstat \in Statuses :
         LET r == engine_run(Cmd("manifest create", command.tags[i], command.sources),
                             vstat, cstat)
         IN /\ _program' = r.program
            /\ trace' = r.trace
            /\ last' = r.last
            /\ IF r.exc # NoExc
               THEN MergeEnds(Exc("ManifestPushError")) /\ UNCHANGED i
               ELSE IF command.push
               THEN /\ pc' = "merge.push"
                    /\ UNCHANGED <<exc, i, j, results>>
               ELSE MergeNextTag
    /\ UNCHANGED <<command, environ, path, sensitive, server, credentials, suppress,
                   attempt, exit_status, fatal, reads, execute_vars, host_vars, parser_error>>

MergeCreate ==
    /\ pc = "merge.create"
    /\ \E vstat \in Statuses, cstat \in Statuses :
         LET r == engine_run(Cmd("manifest create", command.tags[i], command.sources),
                             vstat, cstat)
         IN /\ _program' = r.program
            /\ trace' = r.trace
            /\ last' = r.last
            /\ IF r.exc # NoExc
               THEN MergeEnds(r.exc) /\ UNCHANGED i
               ELSE IF command.push
               THEN /\ pc' = "merge.push"
                    /\ UNCHANGED <<exc, i, j, results>>
               ELSE MergeNextTag
    /\ UNCHANGED <<command, environ, path, sensitive, server, credentials, suppress,
                   attempt, exit_status, fatal, reads, execute_vars, host_vars, parser_error>>

DockerScheme == <<"d", "o", "c", "k", "e", "r", ":", "/", "/">>

\* merge, lines 235-241: `manifest push`; a SubprocessError becomes ManifestPushError.
MergePush ==
    /\ pc = "merge.push"
    /\ \E vstat \in Statuses, cstat \in Statuses :
         LET p == program(vstat)
             tag == command.tags[i]
             options == IF p.program = "podman" THEN <<DockerScheme \o tag>> ELSE <<>>
             r == engine_run(Cmd("manifest push", tag, options), vstat, cstat)
         IN /\ _program' = r.program
            /\ trace' = r.trace
            /\ last' = r.last
            /\ IF r.exc.type = "SubprocessError"
               THEN MergeEnds(Exc("ManifestPushError")) /\ UNCHANGED i
               ELSE IF r.exc # NoExc
               THEN MergeEnds(r.exc) /\ UNCHANGED i
               ELSE MergeNextTag
    /\ UNCHANGED <<command, environ, path, sensitive, server, credentials, suppress,
                   attempt, exit_status, fatal, reads, execute_vars, host_vars, parser_error>>

\* --------------------------------------------------- apply_work_around
\* Mutant of apply_work_around: the pulled image is not pushed again.
WorkaroundPull_SkipPush ==
    /\ pc = "workaround.pull"
    /\ \E vstat \in Statuses, cstat \in Statuses :
         LET r == engine_run(Cmd("pull", command.sources[j], <<>>), vstat, cstat)
         IN /\ _program' = r.program
            /\ trace' = r.trace
            /\ last' = r.last
            /\ IF r.exc # NoExc
               THEN /\ exc' = r.exc
                    /\ pc' = "registry_login.exit"
                    /\ UNCHANGED <<attempt, i, j>>
               ELSE IF j < Len(command.sources)
               THEN /\ j' = j + 1
                    /\ pc' = "workaround.pull"
                    /\ UNCHANGED <<exc, attempt, i>>
               ELSE /\ attempt' = 2
                    /\ i' = 1
                    /\ pc' = "merge.rm"
                    /\ UNCHANGED <<exc, j>>
    /\ UNCHANGED <<command, environ, path, sensitive, server, credentials, suppress,
                   results, exit_status, fatal, reads, execute_vars, host_vars, parser_error>>

\* apply_work_around, line 268: pull sources[j].
WorkaroundPull ==
    /\ pc = "workaround.pull"
    /\ \E vstat \in Statuses, cstat \in Statuses :
         LET r == engine_run(Cmd("pull", command.sources[j], <<>>), vstat, cstat)
         IN /\ _program' = r.program
            /\ trace' = r.trace
            /\ last' = r.last
            /\ IF r.exc # NoExc
               THEN LeaveBody(r.exc)
               ELSE pc' = "workaround.push" /\ UNCHANGED exc
    /\ UNCHANGED <<command, environ, path, sensitive, server, credentials, suppress,
                   attempt, i, j, results, exit_status, fatal, reads, execute_vars, host_vars, parser_error>>

\* Variant of Merge.run in which the retry resumes at the tag whose push
\* failed instead of calling merge() again from the first tag.
WorkaroundPush_ResumeAtFailedTag ==
    /\ pc = "workaround.push"
    /\ \E vstat \in Statuses, cstat \in Statuses :
         LET r == engine_run(Cmd("push", command.sources[j], <<>>), vstat, cstat)
         IN /\ _program' = r.program
            /\ trace' = r.trace
            /\ last' = r.last
            /\ IF r.exc # NoExc
               THEN LeaveBody(r.exc) /\ UNCHANGED <<attempt, i, j>>
               ELSE IF j < Len(command.sources)
               THEN /\ j' = j + 1
                    /\ pc' = "workaround.pull"
                    /\ UNCHANGED <<exc, attempt, i>>
               ELSE /\ attempt' = 2
                    /\ pc' = "merge.rm"
                    /\ UNCHANGED <<exc, i, j>>
    /\ UNCHANGED <<command, environ, path, sensitive, server, credentials, suppress,
                   results, exit_status, fatal, reads, execute_vars, host_vars, parser_error>>

\* apply_work_around, line 269: push sources[j]; after the last source the
\* second merge() call of Merge.run starts (line 225).
WorkaroundPush ==
    /\ pc = "workaround.push"
    /\ \E vstat \in Statuses, cstat \in Statuses :
         LET r == engine_run(Cmd("push", command.sources[j], <<>>), vstat, cstat)
         IN /\ _program' = r.program
            /\ trace' = r.trace
            /\ last' = r.last
            /\ IF r.exc # NoExc
               THEN LeaveBody(r.exc) /\ UNCHANGED <<attempt, i, j>>
               ELSE IF j < Len(command.sources)
               THEN /\ j' = j + 1
                    /\ pc' = "workaround.pull"
                    /\ UNCHANGED <<exc, attempt, i>>
               ELSE /\ attempt' = 2
                    /\ i' = 1
                    /\ pc' = "merge.rm"
                    /\ UNCHANGED <<exc, j>>
    /\ UNCHANGED <<command, environ, path, sensitive, server, credentials, suppress,
                   results, exit_status, fatal, reads, execute_vars, host_vars, parser_error>>

\* ----------------------------------------------------------- Execute.run
\* Execute.run, lines 188-195: parse the tag, take the first container file
\* found in the context, build the credentials from the instance when login
\* is set, and resolve the engine program to choose the build options.
ExecuteRun ==
    /\ pc = "Execute.run"
    /\ \E vstat \in Statuses :
         LET image == Parse(command.tag)
             p == program(vstat)
         IN IF ~image.ok
            THEN /\ Raise(Exc("ValueError"))
                 /\ UNCHANGED <<server, credentials, sensitive, _program, trace, last>>
            ELSE IF Len(Matches(context_dir)) = 0
            THEN /\ Raise(Exc("IndexError"))
                 /\ UNCHANGED <<server, credentials, sensitive, _program, trace, last>>
            ELSE /\ server' = image.server
                 /\ credentials' = IF command.login
                                   THEN [set |-> TRUE, username |-> command.username,
                                         password |-> command.password]
                                   ELSE NoCredentials
                 /\ sensitive' = IF command.login THEN sensitive \cup {command.password}
                                 ELSE sensitive
                 /\ _program' = p.program
                 /\ trace' = p.trace
                 /\ last' = p.last
                 /\ IF p.exc # NoExc
                    THEN Raise(p.exc)
                    ELSE pc' = "registry_login.enter" /\ UNCHANGED exc
    /\ UNCHANGED <<command, environ, path, suppress, attempt, i, j, results,
                   exit_status, fatal, reads, execute_vars, host_vars, parser_error>>

\* Execute.run, line 198: build the image from the context without cache.
ExecuteBuild_PushAfterFailure ==
    /\ pc = "Execute.build"
    /\ \E vstat \in Statuses, cstat \in Statuses :
         LET options == IF _program = "podman" THEN {"--format docker"} ELSE {}
             c == [Cmd("build", command.tag, <<command.context>>) EXCEPT
                       !.file = Matches(context_dir)[1],
                       !.flags = {"--no-cache"} \cup options]
             r == engine_run(c, vstat, cstat)
         IN /\ _program' = r.program
            /\ trace' = r.trace
            /\ last' = r.last
            /\ IF r.exc.type \in {"None", "SubprocessError"} /\ command.push
               THEN pc' = "Execute.push" /\ UNCHANGED exc
               ELSE LeaveBody(r.exc)
    /\ UNCHANGED <<command, environ, path, sensitive, server, credentials, suppress,
                   attempt, i, j, results, exit_status, fatal, reads, execute_vars, host_vars, parser_error>>

ExecuteBuild ==
    /\ pc = "Execute.build"
    /\ \E vstat \in Statuses, cstat \in Statuses :
         LET options == IF _program = "podman" THEN {"--format docker"} ELSE {}
             c == [Cmd("build", command.tag, <<command.context>>) EXCEPT
                       !.file = Matches(context_dir)[1],
                       !.flags = {"--no-cache"} \cup options]
             r == engine_run(c, vstat, cstat)
         IN /\ _program' = r.program
            /\ trace' = r.trace
            /\ last' = r.last
            /\ IF r.exc = NoExc /\ command.push
               THEN pc' = "Execute.push" /\ UNCHANGED exc
               ELSE LeaveBody(r.exc)
    /\ UNCHANGED <<command, environ, path, sensitive, server, credentials, suppress,
                   attempt, i, j, results, exit_status, fatal, reads, execute_vars, host_vars, parser_error>>

\* Execute.run, lines 200-201: push the image when push is set.
ExecutePush ==
    /\ pc = "Execute.push"
    /\ \E vstat \in Statuses, cstat \in Statuses :
         LET r == engine_run(Cmd("push", command.tag, <<>>), vstat, cstat)
         IN /\ _program' = r.program
            /\ trace' = r.trace
            /\ last' = r.last
            /\ LeaveBody(r.exc)
    /\ UNCHANGED <<command, environ, path, sensitive, server, credentials, suppress,
                   attempt, i, j, results, exit_status, fatal, reads, execute_vars, host_vars, parser_error>>

\* ------------------------------------------- Execute: construct, write, read
\* Execute(...): construction runs __post_init__ in the current environment.
ExecuteNew ==
    /\ pc = "Execute.new"
    /\ LET r == Execute_post_init(command, environ)
       IN /\ reads' = IF r.read THEN Append(reads, pc) ELSE reads
          /\ IF r.exc # NoExc
             THEN /\ exc' = r.exc
                  /\ pc' = "raised"
                  /\ UNCHANGED <<command, sensitive>>
             ELSE /\ command' = r.instance
                  /\ sensitive' = IF r.read THEN sensitive \cup {r.instance.password}
                                  ELSE sensitive
                  /\ pc' = "Execute.serialize"
                  /\ UNCHANGED exc
    /\ UNCHANGED <<environ, path, _program, trace, last, server, credentials, suppress,
                   attempt, i, j, results, exit_status, fatal, execute_vars, host_vars, parser_error>>

\* Execute.serialize: the instance's fields are written to the config file.
ExecuteSerialize ==
    /\ pc = "Execute.serialize"
    /\ config_file' = [exists |-> TRUE, doc |-> json_dump(command)]
    /\ pc' = "Execute.deserialize"
    /\ UNCHANGED <<command, environ, path, _program, sensitive, trace, last, exc, server,
                   credentials, suppress, attempt, i, j, results, exit_status, fatal,
                   reads, context_dir, after,
                   host_vars, parser_error>>

\* Execute.deserialize, in the process that reads the file: its environment
\* need not be the one the instance was constructed in.
ExecuteDeserialize ==
    /\ pc = "Execute.deserialize"
    /\ \E env \in Environs :
         LET r == Execute_deserialize(config_file, env)
         IN /\ environ' = env
            /\ reads' = IF r.read THEN Append(reads, pc) ELSE reads
            /\ exc' = r.exc
            /\ after' = r.instance
            /\ sensitive' = IF r.read /\ r.exc = NoExc
                            THEN sensitive \cup {r.instance.password}
                            ELSE sensitive
            /\ pc' = IF r.exc # NoExc THEN "raised" ELSE "done"
    /\ UNCHANGED <<command, path, _program, trace, last, server, credentials, suppress,
                   attempt, i, j, results, exit_status, fatal, context_dir, config_file,
                   host_vars, parser_error>>

\* ------------------------------------------- functions over references
\* get_server applied to the tags and sources of a merge command.
EvalGetServer ==
    /\ pc = "get_server"
    /\ LET r == get_server(command.tags \o command.sources)
       IN /\ server' = r.server
          /\ exc' = r.exc
    /\ pc' = "should_enable_workaround"
    /\ UNCHANGED <<command, environ, path, _program, sensitive, trace, last,
                   credentials, suppress, attempt, i, j, results, exit_status, fatal,
                   reads, execute_vars, host_vars, parser_error>>

\* The should_enable_workaround property of a merge command is read.
EvalWorkaround ==
    /\ pc = "should_enable_workaround"
    /\ suppress' = should_enable_workaround(command)
    /\ pc' = "evaluated"
    /\ UNCHANGED <<command, environ, path, _program, sensitive, trace, last, exc, server,
                   credentials, attempt, i, j, results, exit_status, fatal,
                   reads, execute_vars, host_vars, parser_error>>

\* ------------------------------------------- functions evaluated on their own
\* The variables of main() and of the commands it runs.
main_vars == <<command, environ, path, _program, sensitive, trace, last, exc, server,
               credentials, suppress, attempt, i, j, results, exit_status, fatal, reads>>

\* Python's None, where a string is expected.
None == <<"None">>

\* run_command: the result of running `command`. `process` is what the
\* operating system does with it: whether the program exists, the status it
\* exits with (negative when killed by a signal) and what it writes. The
\* output is collected only with capture.
run_command_PositiveOnly(cmd, capture, process) ==
    LET result == [type |-> "SubprocessResult", name |-> "", command |-> cmd,
                   stdout |-> IF capture THEN process.stdout ELSE None,
                   stderr |-> IF capture THEN process.stderr ELSE None,
                   status |-> process.status]
    IN IF ~process.found
       THEN [type |-> "ProgramNotFoundError", name |-> cmd[1], command |-> <<>>,
             stdout |-> None, stderr |-> None, status |-> 0]
       ELSE IF process.status > 0
       THEN [result EXCEPT !.type = "SubprocessError"]
       ELSE result

run_command(cmd, capture, process) ==
    LET result == [type |-> "SubprocessResult", name |-> "", command |-> cmd,
                   stdout |-> IF capture THEN process.stdout ELSE None,
                   stderr |-> IF capture THEN process.stderr ELSE None,
                   status |-> process.status]
    IN IF ~process.found
       THEN [type |-> "ProgramNotFoundError", name |-> cmd[1], command |-> <<>>,
             stdout |-> None, stderr |-> None, status |-> 0]
       ELSE IF process.status # 0
       THEN [result EXCEPT !.type = "SubprocessError"]
       ELSE result

\* run_command is called with the arguments in arg.
RunCommand ==
    /\ pc = "run_command"
    /\ ret' = run_command(arg.command, arg.capture, arg.process)
    /\ pc' = "evaluated"
    /\ UNCHANGED <<main_vars, execute_vars, arg, tmp, engine_link, printed, parser_error>>

\* The candidates of ContainerEngine.detect, in the order they are tried.
programs == <<"podman", "docker">>

\* ContainerEngine.detect is called: the program found first on the search
\* path, or NoContainerEngineDetectedError with the candidates.
Detect ==
    /\ pc = "ContainerEngine.detect"
    /\ ret' = IF detect(path) = ""
              THEN [type |-> "NoContainerEngineDetectedError", programs |-> programs, value |-> ""]
              ELSE [type |-> "str", programs |-> <<>>, value |-> detect(path)]
    /\ pc' = "evaluated"
    /\ UNCHANGED <<main_vars, execute_vars, arg, tmp, engine_link, printed, parser_error>>

\* ImageReference.parse is called with the string in arg.
EvalParse ==
    /\ pc = "ImageReference.parse"
    /\ LET ref == Parse(arg.value)
       IN ret' = [type |-> IF ref.ok THEN "ImageReference" ELSE "ValueError",
                  server |-> ref.server, repo |-> ref.repo, tag |-> ref.tag,
                  full_repo |-> IF ref.ok THEN full_repo(ref) ELSE <<>>]
    /\ pc' = "evaluated"
    /\ UNCHANGED <<main_vars, execute_vars, arg, tmp, engine_link, printed, parser_error>>

\* ------------------------------------------------------------------ Display
\* n asterisks: '*' * n
Stars(n) == [k \in 1..n |-> "*"]

RECURSIVE Replace(_, _)
\* message.replace(item, '*' * len(item)): the occurrences of item are found
\* from the left and do not overlap; an empty item changes nothing.
Replace(message, item) ==
    IF item = <<>> \/ Len(message) < Len(item) THEN message
    ELSE IF SubSeq(message, 1, Len(item)) = item
    THEN Stars(Len(item)) \o Replace(SubSeq(message, Len(item) + 1, Len(message)), item)
    ELSE <<message[1]>> \o Replace(Tail(message), item)

RECURSIVE ReplaceAll(_, _)
\* The loop of Display.show over the sensitive values, taken in the given order.
ReplaceAll(message, items) ==
    IF items = <<>> THEN message
    ELSE ReplaceAll(Replace(message, Head(items)), Tail(items))

\* The orders in which a set can be iterated.
Orders(S) == { q \in [1..Cardinality(S) -> S] : Range(q) = S }

\* RegistryCredentials.__post_init__: the password is registered as sensitive.
Register(password) ==
    /\ pc = "Display.show"
    /\ Cardinality(sensitive) < MaxSensitive
    /\ password \notin sensitive
    /\ sensitive' = sensitive \cup {password}
    /\ UNCHANGED <<command, environ, path, _program, trace, last, exc, server, credentials,
                   suppress, attempt, i, j, results, exit_status, fatal, reads, pc,
                   execute_vars, host_vars, parser_error>>

\* Display.show: the message in arg is printed with each sensitive value
\* replaced, the values taken in the iteration order of the set, which is not
\* fixed. printed records the text between the colour code and CLEAR.
Show ==
    /\ pc = "Display.show"
    /\ \E order \in Orders(sensitive) :
          printed' = Append(printed, ReplaceAll(arg.message, order))
    /\ pc' = "shown"
    /\ UNCHANGED <<main_vars, execute_vars, arg, ret, tmp, engine_link, parser_error>>

\* ---------------------------------------------------------------- Build.run
\* The dataclass fields of Build, as parsed from the command line.
BuildCommand(context, tag, push, login, keep_instance) ==
    [kind |-> "build", tags |-> <<>>, sources |-> <<>>, push |-> push, login |-> login,
     context |-> context, tag |-> tag, username |-> <<>>, password |-> <<>>,
     keep_instance |-> keep_instance, remote |-> "ubuntu/22.04", arch |-> "x86_64"]

INVENTORY_HOST == "testhost"

\* The build context inside the remote work directory.
RemoteContext == <<"/", "r">>

\* The programs Build.run runs.
AnsibleTools == {"ansible-test", "ansible-inventory", "ansible"}

\* Build.run, lines 83-88: the Execute instance for the remote host, before
\* and after its __post_init__ in the local environment.
BuildExecute ==
    ExecuteCommand(RemoteContext, command.tag, command.push, command.login, <<>>, <<>>)

BuildExecuteInstance == Execute_post_init(BuildExecute, environ).instance

\* ansible_test_shell followed by the given options; file is the argument of --export.
ansible_test_shell(flags, file) ==
    [Cmd("shell", <<"remote:", command.remote, ",arch=", command.arch>>, <<>>) EXCEPT
        !.prog = "ansible-test", !.flags = flags, !.file = file]

\* run_command inside main(): a program that is not on the search path raises
\* ProgramNotFoundError and runs nothing, a non-zero status raises SubprocessError.
Run(c, status) ==
    IF c.prog \notin path
    THEN [exc |-> [Exc("ProgramNotFoundError") EXCEPT !.name = c.prog],
          trace |-> trace, last |-> last]
    ELSE [exc |-> IF status # 0 THEN Exc("SubprocessError") ELSE NoExc,
          trace |-> Append(trace, c), last |-> status]

\* Build.run, lines 83-91: construct the Execute instance (its __post_init__
\* reads the credentials when login is set), then create the inventory file.
BuildRun_CredentialsOnRemote ==
    /\ pc = "Build.run"
    /\ tmp' = {"inventory"}
    /\ pc' = "Build.export"
    /\ UNCHANGED <<command, environ, path, _program, trace, last, server, credentials,
                   suppress, attempt, i, j, results, exit_status, fatal, execute_vars,
                   arg, ret, engine_link, printed, parser_error, reads, sensitive, exc>>

BuildRun ==
    /\ pc = "Build.run"
    /\ LET r == Execute_post_init(BuildExecute, environ)
       IN /\ reads' = IF r.read THEN Append(reads, pc) ELSE reads
          /\ IF r.exc # NoExc
             THEN Raise(r.exc) /\ UNCHANGED <<sensitive, tmp>>
             ELSE /\ sensitive' = IF r.read THEN sensitive \cup {r.instance.password}
                                  ELSE sensitive
                  /\ tmp' = {"inventory"}
                  /\ pc' = "Build.export"
                  /\ UNCHANGED exc
    /\ UNCHANGED <<command, environ, path, _program, trace, last, server, credentials,
                   suppress, attempt, i, j, results, exit_status, fatal, execute_vars,
                   arg, ret, engine_link, printed, parser_error>>

\* Build.run, line 92: provision the instance and export its inventory. An
\* exception leaves the with block, which deletes the inventory file.
BuildExport ==
    /\ pc = "Build.export"
    /\ \E status \in Statuses :
         LET r == Run(ansible_test_shell({"--export"}, "inventory"), status)
         IN /\ trace' = r.trace
            /\ last' = r.last
            /\ IF r.exc # NoExc
               THEN Raise(r.exc) /\ tmp' = {}
               ELSE pc' = "Build.inventory" /\ UNCHANGED <<exc, tmp>>
    /\ UNCHANGED <<command, environ, path, _program, sensitive, server, credentials,
                   suppress, attempt, i, j, results, exit_status, fatal, reads, execute_vars,
                   arg, ret, engine_link, printed, parser_error>>

\* What ansible-inventory can write for the host: its variables with the
\* interpreter, variables without it, or text that is not JSON.
InventoryOutputs == {"interpreter", "no interpreter", "not JSON"}

\* Build.run, lines 93-95: query the inventory and read the interpreter from it.
BuildInventory_IgnoreStatus ==
    /\ pc = "Build.inventory"
    /\ \E status \in Statuses, stdout \in InventoryOutputs :
         LET c == [Cmd("--host", <<INVENTORY_HOST>>, <<>>) EXCEPT
                       !.prog = "ansible-inventory", !.file = "inventory"]
             r == Run(c, status)
             e == IF r.exc.type = "ProgramNotFoundError" THEN r.exc
                  ELSE IF stdout = "not JSON" THEN Exc("JSONDecodeError")
                  ELSE IF stdout = "no interpreter" THEN Exc("KeyError")
                  ELSE NoExc
         IN /\ trace' = r.trace
            /\ last' = r.last
            /\ IF e # NoExc
               THEN Raise(e) /\ tmp' = {}
               ELSE pc' = "Build.upload" /\ UNCHANGED <<exc, tmp>>
    /\ UNCHANGED <<command, environ, path, _program, sensitive, server, credentials,
                   suppress, attempt, i, j, results, exit_status, fatal, reads, execute_vars,
                   arg, ret, engine_link, printed, parser_error>>

BuildInventory ==
    /\ pc = "Build.inventory"
    /\ \E status \in Statuses, stdout \in InventoryOutputs :
         LET c == [Cmd("--host", <<INVENTORY_HOST>>, <<>>) EXCEPT
                       !.prog = "ansible-inventory", !.file = "inventory"]
             r == Run(c, status)
             e == IF r.exc # NoExc THEN r.exc
                  ELSE IF stdout = "not JSON" THEN Exc("JSONDecodeError")
                  ELSE IF stdout = "no interpreter" THEN Exc("KeyError")
                  ELSE NoExc
         IN /\ trace' = r.trace
            /\ last' = r.last
            /\ IF e # NoExc
               THEN Raise(e) /\ tmp' = {}
               ELSE pc' = "Build.upload" /\ UNCHANGED <<exc, tmp>>
    /\ UNCHANGED <<command, environ, path, _program, sensitive, server, credentials,
                   suppress, attempt, i, j, results, exit_status, fatal, reads, execute_vars,
                   arg, ret, engine_link, printed, parser_error>>

\* upload_payload, lines 119-125: the config file is created and written, the
\* archive file is created and the payload is packed into it. Packing can fail
\* (tarfile raises OSError); the exception leaves the three with blocks, and
\* each deletes its file.
BuildPackage ==
    /\ pc = "Build.upload"
    /\ \E packed \in BOOLEAN :
         IF packed
         THEN /\ tmp' = tmp \cup {"config", "archive"}
              /\ config_file' = [exists |-> TRUE, doc |-> json_dump(BuildExecuteInstance)]
              /\ pc' = "Build.unarchive"
              /\ UNCHANGED exc
         ELSE /\ Raise(Exc("OSError"))
              /\ tmp' = {}
              /\ UNCHANGED config_file
    /\ UNCHANGED <<command, environ, path, _program, sensitive, trace, last, server,
                   credentials, suppress, attempt, i, j, results, exit_status, fatal, reads,
                   context_dir, after, arg, ret, engine_link, printed, parser_error>>

\* upload_payload, lines 127-141: unpack the archive on the remote host. The
\* archive and the config file are deleted when their with blocks are left,
\* with or without an exception; an exception also leaves the inventory's.
BuildUnarchive_TerminateOnFailure ==
    /\ pc = "Build.unarchive"
    /\ \E status \in Statuses :
         LET c == [Cmd("unarchive", <<INVENTORY_HOST>>, <<>>) EXCEPT
                       !.prog = "ansible", !.file = "archive"]
             r == Run(c, status)
         IN /\ last' = r.last
            /\ config_file' = Missing
            /\ IF r.exc # NoExc
               THEN /\ Raise(r.exc)
                    /\ tmp' = {}
                    /\ trace' = Append(r.trace, ansible_test_shell({"--remote-terminate always"}, ""))
               ELSE /\ pc' = "Build.dispatch"
                    /\ tmp' = tmp \ {"config", "archive"}
                    /\ trace' = r.trace
                    /\ UNCHANGED exc
    /\ UNCHANGED <<command, environ, path, _program, sensitive, server, credentials,
                   suppress, attempt, i, j, results, exit_status, fatal, reads,
                   context_dir, after, arg, ret, engine_link, printed, parser_error>>

BuildUnarchive_KeepFiles ==
    /\ pc = "Build.unarchive"
    /\ \E status \in Statuses :
         LET c == [Cmd("unarchive", <<INVENTORY_HOST>>, <<>>) EXCEPT
                       !.prog = "ansible", !.file = "archive"]
             r == Run(c, status)
         IN /\ trace' = r.trace
            /\ last' = r.last
            /\ IF r.exc # NoExc
               THEN Raise(r.exc) /\ tmp' = {} /\ config_file' = Missing
               ELSE /\ pc' = "Build.dispatch"
                    /\ UNCHANGED <<exc, tmp, config_file>>
    /\ UNCHANGED <<command, environ, path, _program, sensitive, server, credentials,
                   suppress, attempt, i, j, results, exit_status, fatal, reads,
                   context_dir, after, arg, ret, engine_link, printed, parser_error>>

BuildUnarchive ==
    /\ pc = "Build.unarchive"
    /\ \E status \in Statuses :
         LET c == [Cmd("unarchive", <<INVENTORY_HOST>>, <<>>) EXCEPT
                       !.prog = "ansible", !.file = "archive"]
             r == Run(c, status)
         IN /\ trace' = r.trace
            /\ last' = r.last
            /\ config_file' = Missing
            /\ IF r.exc # NoExc
               THEN Raise(r.exc) /\ tmp' = {}
               ELSE /\ pc' = "Build.dispatch"
                    /\ tmp' = tmp \ {"config", "archive"}
                    /\ UNCHANGED exc
    /\ UNCHANGED <<command, environ, path, _program, sensitive, server, credentials,
                   suppress, attempt, i, j, results, exit_status, fatal, reads,
                   context_dir, after, arg, ret, engine_link, printed, parser_error>>

\* The option that asks ansible-test to terminate the instance.
REMOTE_TERMINATE_ALWAYS == "--remote-terminate always"

\* Build.run, lines 99-104: run the dispatch command on the remote host, with
\* the termination option unless keep_instance is set. Leaving the with block
\* deletes the inventory file.
BuildDispatch_NoTerminate ==
    /\ pc = "Build.dispatch"
    /\ \E status \in Statuses :
         LET r == Run(ansible_test_shell({"--raw"}, ""), status)
         IN /\ trace' = r.trace
            /\ last' = r.last
            /\ tmp' = {}
            /\ IF r.exc # NoExc
               THEN Raise(r.exc)
               ELSE pc' = "main.end" /\ UNCHANGED exc
    /\ UNCHANGED <<command, environ, path, _program, sensitive, server, credentials,
                   suppress, attempt, i, j, results, exit_status, fatal, reads, execute_vars,
                   arg, ret, engine_link, printed, parser_error>>

BuildDispatch ==
    /\ pc = "Build.dispatch"
    /\ \E status \in Statuses :
         LET options == IF ~command.keep_instance THEN {REMOTE_TERMINATE_ALWAYS} ELSE {}
             r == Run(ansible_test_shell(options \cup {"--raw"}, ""), status)
         IN /\ trace' = r.trace
            /\ last' = r.last
            /\ tmp' = {}
            /\ IF r.exc # NoExc
               THEN Raise(r.exc)
               ELSE pc' = "main.end" /\ UNCHANGED exc
    /\ UNCHANGED <<command, environ, path, _program, sensitive, server, credentials,
                   suppress, attempt, i, j, results, exit_status, fatal, reads, execute_vars,
                   arg, ret, engine_link, printed, parser_error>>

\* ------------------------------------------------------------- Dispatch.run
\* Dispatch has no fields.
DispatchCommand ==
    [kind |-> "dispatch", tags |-> <<>>, sources |-> <<>>, push |-> FALSE, login |-> FALSE,
     context |-> <<>>, tag |-> <<>>, username |-> <<>>, password |-> <<>>]

\* Dispatch.run, line 285: the host diagnostic command.
DispatchRun ==
    /\ pc = "Dispatch.run"
    /\ \E status \in Statuses :
         LET r == Run([Cmd("-a", <<>>, <<>>) EXCEPT !.prog = "uname"], status)
         IN /\ trace' = r.trace
            /\ last' = r.last
            /\ IF r.exc # NoExc
               THEN Raise(r.exc)
               ELSE pc' = "Dispatch.deserialize" /\ UNCHANGED exc
    /\ UNCHANGED <<command, environ, path, _program, sensitive, server, credentials,
                   suppress, attempt, i, j, results, exit_status, fatal, reads, execute_vars,
                   host_vars, parser_error>>

\* Variant of Dispatch.run in which a config that cannot be deserialized does
\* not stop the dispatch before the bootstrapper and the engine resolution.
DispatchDeserialize_ErrorDeferred ==
    /\ pc = "Dispatch.deserialize"
    /\ LET r == Execute_deserialize(config_file, environ)
       IN /\ reads' = IF r.read THEN Append(reads, pc) ELSE reads
          /\ after' = IF r.exc # NoExc THEN NoInstance ELSE r.instance
          /\ sensitive' = IF r.read /\ r.exc = NoExc
                          THEN sensitive \cup {r.instance.password}
                          ELSE sensitive
          /\ pc' = "Dispatch.bootstrap"
          /\ UNCHANGED exc
    /\ UNCHANGED <<command, environ, path, _program, trace, last, server, credentials,
                   suppress, attempt, i, j, results, exit_status, fatal,
                   context_dir, config_file, host_vars, parser_error>>

\* Dispatch.run, line 287: the config file of the payload is deserialized in
\* the environment of this process.
DispatchDeserialize ==
    /\ pc = "Dispatch.deserialize"
    /\ LET r == Execute_deserialize(config_file, environ)
       IN /\ reads' = IF r.read THEN Append(reads, pc) ELSE reads
          /\ after' = IF r.exc # NoExc THEN NoInstance ELSE r.instance
          /\ sensitive' = IF r.read /\ r.exc = NoExc
                          THEN sensitive \cup {r.instance.password}
                          ELSE sensitive
          /\ IF r.exc # NoExc
             THEN Raise(r.exc)
             ELSE pc' = "Dispatch.bootstrap" /\ UNCHANGED exc
    /\ UNCHANGED <<command, environ, path, _program, trace, last, server, credentials,
                   suppress, attempt, i, j, results, exit_status, fatal,
                   context_dir, config_file, host_vars, parser_error>>

\* The package managers the bootstrappers look for, in the order of the
\* subclasses of Bootstrapper.
PackageManagers == <<"dnf", "apt-get">>

\* Bootstrapper.init: the first usable bootstrapper, "" for the base class
\* (which installs nothing) when none is usable.
Bootstrapper_init(which) ==
    LET usable == SelectSeq(PackageManagers, LAMBDA m : m \in which)
    IN IF usable = <<>> THEN "" ELSE usable[1]

\* The run() of the bootstrapper: the install command and the engine it installs.
Bootstrapper_run(bootstrapper) ==
    IF bootstrapper = "dnf"
    THEN [engine |-> "podman",
          cmd |-> [Cmd("install", <<"podman">>, <<>>) EXCEPT !.prog = "dnf", !.flags = {"-y"}]]
    ELSE [engine |-> "docker",
          cmd |-> [Cmd("install", <<"docker.io">>, <<>>) EXCEPT
                       !.prog = "apt-get", !.flags = {"-y", "--no-install-recommends"}]]

\* Dispatch.run, lines 289-290: the bootstrapper is chosen and run, whether or
\* not a container engine is on the search path. A successful install puts
\* its engine on the search path.
BootstrapperRun_OnlyWithoutEngine ==
    /\ pc = "Dispatch.bootstrap"
    /\ LET bootstrapper == Bootstrapper_init(path)
       IN IF bootstrapper = "" \/ detect(path) # ""
          THEN /\ pc' = "Dispatch.link"
               /\ UNCHANGED <<trace, last, path, exc>>
          ELSE \E status \in Statuses :
                  LET b == Bootstrapper_run(bootstrapper)
                      r == Run(b.cmd, status)
                  IN /\ trace' = r.trace
                     /\ last' = r.last
                     /\ IF r.exc # NoExc
                        THEN Raise(r.exc) /\ UNCHANGED path
                        ELSE /\ path' = path \cup {b.engine}
                             /\ pc' = "Dispatch.link"
                             /\ UNCHANGED exc
    /\ UNCHANGED <<command, environ, _program, sensitive, server, credentials,
                   suppress, attempt, i, j, results, exit_status, fatal, reads, execute_vars,
                   host_vars, parser_error>>

BootstrapperRun ==
    /\ pc = "Dispatch.bootstrap"
    /\ LET bootstrapper == Bootstrapper_init(path)
       IN IF bootstrapper = ""
          THEN /\ pc' = "Dispatch.link"
               /\ UNCHANGED <<trace, last, path, exc>>
          ELSE \E status \in Statuses :
                  LET b == Bootstrapper_run(bootstrapper)
                      r == Run(b.cmd, status)
                  IN /\ trace' = r.trace
                     /\ last' = r.last
                     /\ IF r.exc # NoExc
                        THEN Raise(r.exc) /\ UNCHANGED path
                        ELSE /\ path' = path \cup {b.engine}
                             /\ pc' = "Dispatch.link"
                             /\ UNCHANGED exc
    /\ UNCHANGED <<command, environ, _program, sensitive, server, credentials,
                   suppress, attempt, i, j, results, exit_status, fatal, reads, execute_vars,
                   host_vars, parser_error>>

\* Dispatch.run, lines 292-296: the engine is resolved (and probed) and linked
\* at ENGINE_LINK, an existing link is left as it is; then execute.run() is
\* called: the deserialized instance becomes the command that runs.
DispatchLink ==
    /\ pc = "Dispatch.link"
    /\ \E vstat \in Statuses :
         LET p == program(vstat)
         IN /\ _program' = p.program
            /\ trace' = p.trace
            /\ last' = p.last
            /\ IF p.exc # NoExc
               THEN Raise(p.exc) /\ UNCHANGED <<engine_link, command>>
               ELSE /\ engine_link' = IF engine_link = "" THEN p.program ELSE engine_link
                    /\ command' = after
                    /\ pc' = "Execute.run"
                    /\ UNCHANGED exc
    /\ UNCHANGED <<environ, path, sensitive, server, credentials,
                   suppress, attempt, i, j, results, exit_status, fatal, reads, execute_vars,
                   arg, ret, tmp, printed, parser_error>>

\* -------------------------------------------------------- specification
\* The process starts in main() with the parsed arguments of a merge command.
InitMerge ==
    /\ command \in MergeCommands(Refs)
    /\ environ \in Environs
    /\ path \in SUBSET Engines
    /\ _program = ""
    /\ sensitive = {}
    /\ reads = <<>>
    /\ context_dir = NoDirectory
    /\ config_file = Missing
    /\ after = NoInstance
    /\ InitHost
    /\ pc = "parse_args"
    /\ trace = <<>>
    /\ last = 0
    /\ exc = NoExc
    /\ server = <<>>
    /\ credentials = NoCredentials
    /\ suppress = FALSE
    /\ attempt = 0
    /\ i = 0
    /\ j = 0
    /\ results = <<>>
    /\ exit_status = -1
    /\ fatal = FALSE

NextMerge ==
    \/ ParseArgs
    \/ MergeGetServer
    \/ MergeCredentials
    \/ RegistryLoginEnter
    \/ MergeRm
    \/ MergeCreate
    \/ MergePush
    \/ WorkaroundPull
    \/ WorkaroundPush
    \/ RegistryLoginExit
    \/ MainExcept
    \/ MainEnd

SpecMerge == InitMerge /\ [][NextMerge]_vars


\* The context directories: not a directory, or one holding any of the container files.
ContextDirs ==
    {NoDirectory} \cup {[isdir |-> TRUE, files |-> f] : f \in SUBSET Range(CONTAINER_FILES)}

Contexts == { <<".">>, <<"/", "r">> }

\* The process starts in main() with the arguments of an execute command;
\* username and password are not command line arguments.
InitExecute ==
    /\ command \in { ExecuteCommand(c, t, p, l, <<>>, <<>>) :
                        c \in {<<".">>}, t \in {<<"a", "/", "r", ":", "1">>, <<"a">>},
                        p \in BOOLEAN, l \in BOOLEAN }
    /\ environ \in Environs
    /\ path \in SUBSET Engines
    /\ context_dir \in ContextDirs
    /\ _program = ""
    /\ sensitive = {}
    /\ reads = <<>>
    /\ config_file = Missing
    /\ after = NoInstance
    /\ InitHost
    /\ pc = "parse_args"
    /\ trace = <<>>
    /\ last = 0
    /\ exc = NoExc
    /\ server = <<>>
    /\ credentials = NoCredentials
    /\ suppress = FALSE
    /\ attempt = 0
    /\ i = 0
    /\ j = 0
    /\ results = <<>>
    /\ exit_status = -1
    /\ fatal = FALSE

NextExecute ==
    \/ ParseArgs
    \/ ExecuteRun
    \/ RegistryLoginEnter
    \/ ExecuteBuild
    \/ ExecutePush
    \/ RegistryLoginExit
    \/ MainExcept
    \/ MainEnd

SpecExecute == InitExecute /\ [][NextExecute]_vars

\* An Execute instance is constructed from any keyword arguments, written to
\* the config file and read back.
InitConfig ==
    /\ command \in { ExecuteCommand(c, t, p, l, u, w) :
                        c \in Contexts, t \in {<<"a", "/", "r", ":", "1">>},
                        p \in BOOLEAN, l \in BOOLEAN,
                        u \in Usernames \cup {<<>>}, w \in Passwords }
    /\ environ \in Environs
    /\ path = {}
    /\ context_dir = NoDirectory
    /\ _program = ""
    /\ sensitive = {}
    /\ reads = <<>>
    /\ config_file = Missing
    /\ after = NoInstance
    /\ InitHost
    /\ pc = "Execute.new"
    /\ trace = <<>>
    /\ last = 0
    /\ exc = NoExc
    /\ server = <<>>
    /\ credentials = NoCredentials
    /\ suppress = FALSE
    /\ attempt = 0
    /\ i = 0
    /\ j = 0
    /\ results = <<>>
    /\ exit_status = -1
    /\ fatal = FALSE

NextConfig ==
    \/ ExecuteNew
    \/ ExecuteSerialize
    \/ ExecuteDeserialize

SpecConfig == InitConfig /\ [][NextConfig]_vars


\* The functions over references, evaluated on merge commands over MoreRefs.
InitRefs ==
    /\ command \in { c \in MergeCommands(MoreRefs) : ~c.login }
    /\ environ \in { [k \in {} |-> <<>>] }
    /\ path = {}
    /\ context_dir = NoDirectory
    /\ _program = ""
    /\ sensitive = {}
    /\ reads = <<>>
    /\ config_file = Missing
    /\ after = NoInstance
    /\ InitHost
    /\ pc = "get_server"
    /\ trace = <<>>
    /\ last = 0
    /\ exc = NoExc
    /\ server = <<>>
    /\ credentials = NoCredentials
    /\ suppress = FALSE
    /\ attempt = 0
    /\ i = 0
    /\ j = 0
    /\ results = <<>>
    /\ exit_status = -1
    /\ fatal = FALSE

NextRefs ==
    \/ EvalGetServer
    \/ EvalWorkaround

SpecRefs == InitRefs /\ [][NextRefs]_vars

\* A command that has not been parsed.
NoCommand ==
    [kind |-> "none", tags |-> <<>>, sources |-> <<>>, push |-> FALSE, login |-> FALSE,
     context |-> <<>>, tag |-> <<>>, username |-> <<>>, password |-> <<>>]

\* The state of main() before anything has run.
InitMain ==
    /\ _program = ""
    /\ sensitive = {}
    /\ reads = <<>>
    /\ trace = <<>>
    /\ last = 0
    /\ exc = NoExc
    /\ server = <<>>
    /\ credentials = NoCredentials
    /\ suppress = FALSE
    /\ attempt = 0
    /\ i = 0
    /\ j = 0
    /\ results = <<>>
    /\ exit_status = -1
    /\ fatal = FALSE

\* Command lines given to run_command.
Argvs == { <<"podman", "--version">>, <<"docker", "push", "a/r:1">>, <<"uname">> }

\* Exit statuses of a process: success, failures, and killed by signal 9.
ProcessStatuses == {0, 1, 2, -9}

\* What a process writes on one of its output streams.
Outputs == { <<>>, <<"o">> }

\* What the operating system does with a command.
Processes ==
    { [found |-> FALSE, status |-> 0, stdout |-> <<>>, stderr |-> <<>>] }
    \cup [found : {TRUE}, status : ProcessStatuses, stdout : Outputs, stderr : Outputs]

\* run_command and ContainerEngine.detect, each called on its own.
InitCalls ==
    /\ \/ /\ pc = "run_command"
          /\ arg \in [op : {"run_command"}, command : Argvs, capture : BOOLEAN, process : Processes]
          /\ path = {}
       \/ /\ pc = "ContainerEngine.detect"
          /\ arg = [op |-> "detect"]
          /\ path \in SUBSET Engines
    /\ command = NoCommand
    /\ environ \in { [k \in {} |-> <<>>] }
    /\ context_dir = NoDirectory
    /\ config_file = Missing
    /\ after = NoInstance
    /\ ret = NoRet /\ tmp = {} /\ engine_link = "" /\ printed = <<>> /\ parser_error = ""
    /\ InitMain

NextCalls ==
    \/ RunCommand
    \/ Detect

SpecCalls == InitCalls /\ [][NextCalls]_vars

\* The characters of the strings given to ImageReference.parse: the two
\* separators and one other character.
RefChars == {"a", "/", ":"}

\* ImageReference.parse called on its own on every string up to MaxRefLen.
InitParse ==
    /\ pc = "ImageReference.parse"
    /\ arg \in [op : {"parse"}, value : {<<>>} \cup SeqsUpTo(RefChars, MaxRefLen)]
    /\ path = {}
    /\ command = NoCommand
    /\ environ \in { [k \in {} |-> <<>>] }
    /\ context_dir = NoDirectory
    /\ config_file = Missing
    /\ after = NoInstance
    /\ ret = NoRet /\ tmp = {} /\ engine_link = "" /\ printed = <<>> /\ parser_error = ""
    /\ InitMain

NextParse ==
    \/ EvalParse

SpecParse == InitParse /\ [][NextParse]_vars

\* The characters of the messages given to Display.show.
MessageChars == {"a", "b"}

\* The values registered as sensitive.
Secrets == { <<"a", "a">>, <<"a", "b">>, <<"b">>, <<"a", "b", "a">> }

\* Display.show called on its own, after any passwords have been registered.
InitDisplay ==
    /\ pc = "Display.show"
    /\ arg \in [op : {"show"}, message : {<<>>} \cup SeqsUpTo(MessageChars, MaxMessage)]
    /\ path = {}
    /\ command = NoCommand
    /\ environ \in { [k \in {} |-> <<>>] }
    /\ context_dir = NoDirectory
    /\ config_file = Missing
    /\ after = NoInstance
    /\ ret = NoRet /\ tmp = {} /\ engine_link = "" /\ printed = <<>> /\ parser_error = ""
    /\ InitMain

NextDisplay ==
    \/ \E password \in Secrets : Register(password)
    \/ Show

SpecDisplay == InitDisplay /\ [][NextDisplay]_vars

\* The process starts in main() with the arguments of a build command. The
\* programs of Build.run may or may not be installed.
InitBuild ==
    /\ command \in { BuildCommand(<<".">>, <<"a", "/", "r", ":", "1">>, p, l, k) :
                        p \in BOOLEAN, l \in BOOLEAN, k \in BOOLEAN }
    /\ environ \in Environs
    /\ path \in SUBSET AnsibleTools
    /\ context_dir = [isdir |-> TRUE, files |-> {"Containerfile"}]
    /\ config_file = Missing
    /\ after = NoInstance
    /\ InitHost
    /\ pc = "parse_args"
    /\ InitMain

NextBuild ==
    \/ ParseArgs
    \/ BuildRun
    \/ BuildExport
    \/ BuildInventory
    \/ BuildPackage
    \/ BuildUnarchive
    \/ BuildDispatch
    \/ MainExcept
    \/ MainEnd

SpecBuild == InitBuild /\ [][NextBuild]_vars

\* A config file as Execute.serialize writes it on the controller.
GoodConfigs ==
    { json_dump(ExecuteCommand(RemoteContext, <<"a", "/", "r", ":", "1">>, p, l, c[1], c[2])) :
         p \in BOOLEAN, l \in BOOLEAN, c \in { <<<<>>, <<>>>>, <<<<"u">>, <<"p">>>> } }

\* The config files Dispatch may find: none, the ones serialize writes, text
\* that is not JSON, and JSON objects with a field missing or a field too many.
ConfigFiles ==
    {Missing}
    \cup { [exists |-> TRUE, doc |-> d] : d \in GoodConfigs }
    \cup { [exists |-> TRUE, doc |-> << [key |-> "tag", text |-> <<"x">>] >>] }
    \cup { [exists |-> TRUE, doc |-> Tail(d)] : d \in GoodConfigs }
    \cup { [exists |-> TRUE, doc |-> Append(d, [key |-> "arch", text |-> JsonString(<<"x">>)])] :
              d \in GoodConfigs }

\* The process starts in main() on the remote host with the dispatch command;
\* a link may be left at ENGINE_LINK by an earlier run, and the context
\* directory of the payload was not validated by this process.
InitDispatch ==
    /\ command = DispatchCommand
    /\ environ \in Environs
    /\ path \in { {"uname"} \cup S : S \in SUBSET (Engines \cup Range(PackageManagers)) }
    /\ context_dir \in ContextDirs \ {NoDirectory}
    /\ config_file \in ConfigFiles
    /\ after = NoInstance
    /\ arg = NoArg /\ ret = NoRet /\ tmp = {} /\ printed = <<>> /\ parser_error = ""
    /\ engine_link \in {"", "docker"}
    /\ pc = "parse_args"
    /\ InitMain

NextDispatch ==
    \/ ParseArgs
    \/ DispatchRun
    \/ DispatchDeserialize
    \/ BootstrapperRun
    \/ DispatchLink
    \/ ExecuteRun
    \/ RegistryLoginEnter
    \/ ExecuteBuild
    \/ ExecutePush
    \/ RegistryLoginExit
    \/ MainExcept
    \/ MainEnd

SpecDispatch == InitDispatch /\ [][NextDispatch]_vars

\* main() started with any of the four commands: build, execute, dispatch,
\* or a merge of one source into one tag.
InitCommands ==
    \/ InitBuild
    \/ InitExecute
    \/ InitDispatch
    \/ InitMerge /\ Len(command.tags) = 1 /\ Len(command.sources) = 1

NextCommands ==
    \/ NextBuild
    \/ NextExecute
    \/ NextDispatch
    \/ NextMerge

SpecCommands == InitCommands /\ [][NextCommands]_vars

\* ================================================================ claims
\* Positions in the trace of the commands with one of the given subcommands.
Indexes(subs) == {k \in 1..Len(trace) : trace[k].sub \in subs}

MergeRefs == Range(command.tags \o command.sources)

\* The servers and the repositories named by the merge command's references.
MergeServers == {Parse(r).server : r \in MergeRefs}
MergeRepos == {<<Parse(r).server, Parse(r).repo>> : r \in MergeRefs}

\* Merge.run has evaluated should_enable_workaround (line 217).
PastSuppress ==
    pc \in {"registry_login.enter", "merge.rm", "merge.create", "merge.push",
            "workaround.pull", "workaround.push", "registry_login.exit", "evaluated"}

\* C1: the workaround is enabled if and only if push is requested and the
\* tags and sources together name more than one repository (server/repo);
\* it is off for a single shared repository and whenever push is not requested.
C1_WorkaroundTrigger ==
    command.kind = "merge" =>
        /\ should_enable_workaround(command)
               = (command.push /\ Cardinality(MergeRepos) > 1)
        /\ PastSuppress => suppress = (command.push /\ Cardinality(MergeRepos) > 1)
        /\ (~command.push \/ Cardinality(MergeRepos) = 1) => ~should_enable_workaround(command)

\* C1 witness: the workaround is enabled for three references on one server
\* that name two repositories.
C1_Witness ==
    /\ pc = "evaluated"
    /\ suppress
    /\ Cardinality(MergeRepos) = 2
    /\ Cardinality(MergeRefs) = 3
    /\ Cardinality(MergeServers) = 1


\* Merge.run is over: the exception, if any, has reached main().
LeftRun == pc \in {"main.except", "main.end", "exited"}

\* The logout of the session failed, so its error replaced the body's outcome.
LogoutFailed == credentials.set /\ Len(trace) > 0 /\ trace[Len(trace)].sub = "logout" /\ last # 0

\* C2 as stated: once the retried merge has started, each distinct source
\* image has been pulled exactly once and pushed exactly once.
C2_OnePairPerDistinctSource ==
    (command.kind = "merge" /\ attempt = 2) =>
        \A s \in Range(command.sources) :
            /\ Cardinality({k \in Indexes({"pull"}) : trace[k].target = s}) = 1
            /\ Cardinality({k \in Indexes({"push"}) : trace[k].target = s}) = 1

\* C2 (amended): when the workaround is triggered and the first attempt fails
\* with the manifest-push signal, the recovery issues one pull followed
\* immediately by one push for each entry of the sources list, in list order
\* (a repeated source is pulled and pushed once per occurrence); the pulls and
\* pushes follow the failed manifest push and all precede the first command of
\* the retried merge.
C2_PullPushPerSourceEntry ==
    (command.kind = "merge" /\ attempt = 2) =>
        LET n == Len(command.sources)
            P == Indexes({"pull", "push"})
        IN /\ suppress
           /\ results[1] = "ManifestPushError"
           /\ Cardinality(P) = 2 * n
           /\ \E k0 \in 2..Len(trace) :
                /\ P = k0..(k0 + 2 * n - 1)
                /\ trace[k0 - 1].sub = "manifest push"
                /\ \A m \in 1..n :
                     /\ trace[k0 + 2 * m - 2].sub = "pull"
                     /\ trace[k0 + 2 * m - 2].target = command.sources[m]
                     /\ trace[k0 + 2 * m - 1].sub = "push"
                     /\ trace[k0 + 2 * m - 1].target = command.sources[m]
                /\ (pc = "merge.rm" /\ i = 1) => Len(trace) = k0 + 2 * n - 1
                /\ \A k \in (k0 + 2 * n)..Len(trace) :
                     trace[k].sub \in {"manifest rm", "manifest create", "manifest push", "logout"}

\* C2 witness: the retry has started after a workaround over a repeated source.
C2_Witness ==
    /\ attempt = 2
    /\ pc = "merge.create"
    /\ Len(command.sources) = 2
    /\ command.sources[1] = command.sources[2]

C4_OnlyApplicationErrors ==
    (pc \in {"main.except", "exited"} /\ exc # NoExc) =>
        /\ exc.type \in ApplicationErrors
        /\ pc = "exited" => (fatal /\ exit_status = 1)

\* get_server has been evaluated by Merge.run.
PastGetServer == command.kind = "merge" /\ pc \notin {"parse_args", "Merge.run", "get_server"}

\* C5: get_server returns the server when all references share exactly one,
\* and raises MultipleServersError listing all distinct servers in ascending
\* order when they span two or more.
C5_GetServer ==
    PastGetServer =>
        /\ Cardinality(MergeServers) = 1 =>
             /\ exc.type # "MultipleServersError"
             /\ server \in MergeServers
        /\ Cardinality(MergeServers) >= 2 =>
             /\ exc.type = "MultipleServersError"
             /\ Range(exc.servers) = MergeServers
             /\ Len(exc.servers) = Cardinality(MergeServers)
             /\ \A k \in 1..(Len(exc.servers) - 1) : StrLess(exc.servers[k], exc.servers[k + 1])

\* C5 witness: the error lists a, aa, b although b was named first and a last.
C5_Witness ==
    /\ pc = "evaluated"
    /\ exc.type = "MultipleServersError"
    /\ exc.servers = << <<"a">>, <<"a", "a">>, <<"b">> >>
    /\ Parse(command.tags[1]).server = <<"b">>
    /\ Parse(command.sources[Len(command.sources)]).server = <<"a">>

\* C6: a merge spanning more than one server fails with MultipleServersError
\* and exit status 1 before the credentials are read from the environment and
\* before any engine command is issued, also when login is requested and the
\* credential variables are unset.
C6_MultipleServersFirst ==
    (PastGetServer /\ Cardinality(MergeServers) > 1) =>
        /\ exc.type = "MultipleServersError"
        /\ reads = <<>>
        /\ trace = <<>>
        /\ _program = ""
        /\ pc \in {"main.except", "exited"}
        /\ pc = "exited" => (exit_status = 1 /\ fatal)

\* C6 witness: login requested, both variables unset, two servers, process ended.
C6_Witness ==
    /\ pc = "exited"
    /\ command.kind = "merge"
    /\ command.login
    /\ DOMAIN environ = {}
    /\ Cardinality(MergeServers) = 2


\* The login command of the session was issued and exited with status 0.
LoginSucceeded == \E k \in Indexes({"login"}) : k < Len(trace) \/ last = 0

\* C7: when credentials are supplied and the login succeeds, exactly one
\* logout for the same server is issued after the body ends (completed,
\* returned early or raised) and none before; when credentials are absent,
\* neither a login nor a logout command is ever issued.
C7_SessionLogout ==
    /\ ~credentials.set => Indexes({"login", "logout"}) = {}
    /\ (LoginSucceeded /\ ~LeftRun) => Indexes({"logout"}) = {}
    /\ (LoginSucceeded /\ LeftRun) =>
         /\ Indexes({"logout"}) = {Len(trace)}
         /\ trace[Len(trace)].target = server
         /\ \A k \in Indexes({"login"}) : trace[k].target = server /\ k < Len(trace)

\* C7 witness: the body raised (manifest create failed) and the logout followed.
C7_Witness ==
    /\ pc = "exited"
    /\ LoginSucceeded
    /\ results = <<"SubprocessError">>
    /\ trace[Len(trace)].sub = "logout"

\* The subcommands Merge.merge and apply_work_around issue.
MergeSubcommands == {"manifest rm", "manifest create", "manifest push", "pull", "push"}

\* C8: a Merge.run with login issues at most one login and one logout, both
\* for the common server; once the session body runs there is exactly one
\* login, every manifest rm/create/push of both attempts and every pull/push
\* of the workaround comes after it and before the logout, and exactly one
\* logout has been issued when the run is over.
C8_SingleSession ==
    (command.kind = "merge" /\ command.login) =>
        /\ Cardinality(Indexes({"login"})) <= 1
        /\ Cardinality(Indexes({"logout"})) <= 1
        /\ \A k \in Indexes({"login", "logout"}) :
             trace[k].target = server /\ MergeServers = {server}
        /\ attempt >= 1 => Cardinality(Indexes({"login"})) = 1
        /\ \A k \in Indexes(MergeSubcommands) :
             /\ \E l \in Indexes({"login"}) : l < k
             /\ \A o \in Indexes({"logout"}) : k < o
        /\ (attempt >= 1 /\ LeftRun) => Cardinality(Indexes({"logout"})) = 1

\* C8 witness: first attempt, workaround and successful retry inside one session.
C8_Witness ==
    /\ pc = "exited"
    /\ command.login
    /\ results = <<"ManifestPushError", "ok">>
    /\ Indexes({"pull"}) # {}
    /\ Cardinality(Indexes({"login"})) = 1
    /\ Cardinality(Indexes({"logout"})) = 1

\* C9: constructing an Execute command with login requested, no credentials
\* supplied and a credential variable unset raises MissingEnvVarError naming
\* the first missing key (CONTAINMINT_USERNAME when both are missing); the
\* process exits with status 1 and no engine command is issued.
C9_MissingCredentials ==
    ( /\ command.kind = "execute"
      /\ pc # "parse_args"
      /\ image_ref(command.tag) /\ context_ref(context_dir) = ""
      /\ command.login
      /\ command.username = <<>> /\ command.password = <<>>
      /\ DOMAIN environ # {USERNAME, PASSWORD} ) =>
        /\ exc.type = "MissingEnvVarError"
        /\ exc.name = (IF USERNAME \notin DOMAIN environ THEN USERNAME ELSE PASSWORD)
        /\ reads = <<"parse_args">>
        /\ trace = <<>>
        /\ _program = ""
        /\ pc \in {"main.except", "exited"}
        /\ pc = "exited" => (exit_status = 1 /\ fatal)

\* C9 witness: both variables unset, the process ended naming CONTAINMINT_USERNAME.
C9_Witness ==
    /\ pc = "exited"
    /\ command.kind = "execute"
    /\ command.login
    /\ DOMAIN environ = {}
    /\ exc.name = USERNAME
    /\ exit_status = 1

\* C10 as stated: for every Execute instance that construction accepts,
\* deserialize applied to the file written by serialize returns an equal
\* instance, without reading the credential variables.
C10_RoundTrip ==
    (config_file.exists /\ pc \notin {"Execute.serialize", "Execute.deserialize"}) =>
        /\ pc = "done"
        /\ after = command
        /\ \A k \in 1..Len(reads) : reads[k] # "Execute.deserialize"

\* The container files present in the context directory of the command line.
ContextFiles == context_dir.files \cap Range(CONTAINER_FILES)

\* The tag of the command line has the form server/repo:tag.
TagWellFormed == Parse(command.tag).ok

\* The message context_ref's classification gives the context directory of the
\* command line ("" for a directory holding exactly one container file).
ContextClass ==
    IF ~context_dir.isdir THEN "context must be a directory"
    ELSE IF ContextFiles = {} THEN "missing one of"
    ELSE IF Cardinality(ContextFiles) = 2 THEN "multiple matches"
    ELSE ""

\* C13: once the arguments are parsed, a context that is not a directory, holds
\* no container file or holds both has ended the process with status 2 and the
\* matching message (or the tag's message when the tag is rejected as well); a
\* directory holding exactly one container file is accepted: no context error is
\* reported and the command keeps the context path it was given.
C13_ContextClassified ==
    pc # "parse_args" =>
        IF ContextClass # ""
        THEN /\ pc = "exited"
             /\ exit_status = 2
             /\ \/ parser_error = ContextClass
                \/ ~TagWellFormed /\ parser_error = TAG_FORMAT_ERROR
        ELSE /\ parser_error \in {"", TAG_FORMAT_ERROR}
             /\ TagWellFormed => parser_error = "" /\ exit_status # 2
             /\ command.context \in Contexts

C13_Witness ==
    /\ pc = "exited"
    /\ TagWellFormed
    /\ Cardinality(ContextFiles) = 2
    /\ parser_error = "multiple matches"

\* C14: with a malformed tag or an invalid context directory on the command
\* line, the process never leaves argument parsing: the command is not
\* constructed, no external process is run, the environment is not read, no
\* error is raised, and the process exits with status 2.
C14_RejectedBeforeSideEffects ==
    (~TagWellFormed \/ ContextClass # "") =>
        /\ pc \in {"parse_args", "exited"}
        /\ trace = <<>>
        /\ reads = <<>>
        /\ sensitive = {}
        /\ _program = ""
        /\ exc = NoExc
        /\ command.username = <<>> /\ command.password = <<>>
        /\ pc = "exited" => exit_status = 2 /\ parser_error # ""

C14_Witness ==
    /\ pc = "exited"
    /\ ~TagWellFormed
    /\ ContextClass = ""
    /\ DOMAIN environ # {}
    /\ path # {}
    /\ exit_status = 2

\* C11: run_command returns a SubprocessResult exactly when the program exists
\* and exits with status 0; a non-zero status raises SubprocessError with the
\* command line, the status and the collected stdout and stderr; a program
\* that does not exist raises ProgramNotFoundError naming the command's first
\* element.
C11_RunCommand ==
    (pc = "evaluated" /\ arg.op = "run_command") =>
        LET p == arg.process
        IN /\ ret.type = "SubprocessResult" <=> (p.found /\ p.status = 0)
           /\ (p.found /\ p.status # 0) =>
                 /\ ret.type = "SubprocessError"
                 /\ ret.command = arg.command
                 /\ ret.status = p.status
                 /\ ret.stdout = IF arg.capture THEN p.stdout ELSE None
                 /\ ret.stderr = IF arg.capture THEN p.stderr ELSE None
           /\ ~p.found => ret.type = "ProgramNotFoundError" /\ ret.name = Head(arg.command)

C11_Witness ==
    /\ pc = "evaluated"
    /\ arg.op = "run_command"
    /\ arg.capture
    /\ arg.process.status < 0
    /\ arg.process.stderr # <<>>
    /\ ret.type = "SubprocessError"

\* C12: ContainerEngine.detect returns podman whenever podman is on the search
\* path, docker when only docker is, and raises
\* NoContainerEngineDetectedError with both candidates when neither is.
C12_DetectPriority ==
    (pc = "evaluated" /\ arg.op = "detect") =>
        /\ "podman" \in path => ret.type = "str" /\ ret.value = "podman"
        /\ ("podman" \notin path /\ "docker" \in path) => ret.type = "str" /\ ret.value = "docker"
        /\ path \cap {"podman", "docker"} = {} =>
              /\ ret.type = "NoContainerEngineDetectedError"
              /\ ret.programs = <<"podman", "docker">>

C12_Witness ==
    /\ pc = "evaluated"
    /\ arg.op = "detect"
    /\ path = {"podman", "docker"}
    /\ ret.value = "podman"

\* C20: for every way of reading the string as server/repo:tag with no "/" in
\* server and no ":" in repo, ImageReference.parse returns exactly these three
\* fields, full_repo is server + "/" + repo, and joining the fields again gives
\* the string; a string with no "/", or with no ":" after its first "/", is
\* rejected.
C20_ParseRecovers ==
    (pc = "evaluated" /\ arg.op = "parse") =>
        LET v == arg.value
            n == Len(v)
            slashes == {k \in 1..n : v[k] = "/"}
        IN /\ \A k \in 1..n : \A m \in (k + 1)..n :
                 (/\ v[k] = "/" /\ v[m] = ":"
                  /\ \A x \in 1..(k - 1) : v[x] # "/"
                  /\ \A x \in (k + 1)..(m - 1) : v[x] # ":")
                 => /\ ret.type = "ImageReference"
                    /\ ret.server = SubSeq(v, 1, k - 1)
                    /\ ret.repo = SubSeq(v, k + 1, m - 1)
                    /\ ret.tag = SubSeq(v, m + 1, n)
                    /\ ret.full_repo = SubSeq(v, 1, k - 1) \o <<"/">> \o SubSeq(v, k + 1, m - 1)
                    /\ ret.server \o <<"/">> \o ret.repo \o <<":">> \o ret.tag = v
           /\ slashes = {} => ret.type = "ValueError"
           /\ (\E k \in slashes : /\ \A x \in slashes : k <= x
                                  /\ \A m \in (k + 1)..n : v[m] # ":")
                 => ret.type = "ValueError"

C20_Witness ==
    /\ pc = "evaluated"
    /\ arg.op = "parse"
    /\ arg.value = <<"/", ":", ":", "a">>
    /\ ret.type = "ImageReference"
    /\ ret.repo = <<>>
    /\ ret.tag = <<":", "a">>

\* The positions of the message that lie inside an occurrence of the item.
OccurrencePositions(message, item) ==
    { k \in 1..Len(message) :
        \E s \in 1..Len(message) :
            /\ item # <<>>
            /\ s <= k /\ k < s + Len(item)
            /\ s + Len(item) - 1 <= Len(message)
            /\ SubSeq(message, s, s + Len(item) - 1) = item }

\* C19: the text Display.show prints has the length of the message, and every
\* position of the message inside an occurrence of a registered sensitive
\* value holds an asterisk in the printed text.
C19_FullyMasked ==
    (pc = "shown" /\ sensitive # {}) =>
        /\ Len(printed[1]) = Len(arg.message)
        /\ \A item \in sensitive : \A k \in OccurrencePositions(arg.message, item) :
              printed[1][k] = "*"

\* Positions in the trace of the remote dispatch command.
DispatchIndexes ==
    {k \in 1..Len(trace) : trace[k].prog = "ansible-test" /\ "--raw" \in trace[k].flags}

\* C15: the remote dispatch command of Build.run carries the termination
\* option "always" exactly when keep_instance is not set, whatever status the
\* command then ends with; with keep_instance no command carries it.
C15_TerminateAlways ==
    /\ \A k \in DispatchIndexes :
          REMOTE_TERMINATE_ALWAYS \in trace[k].flags <=> ~command.keep_instance
    /\ command.keep_instance =>
          \A k \in 1..Len(trace) : REMOTE_TERMINATE_ALWAYS \notin trace[k].flags
    /\ pc = "main.end" => DispatchIndexes = {Len(trace)}

C15_Witness ==
    /\ pc = "exited"
    /\ ~command.keep_instance
    /\ DispatchIndexes = {4}
    /\ REMOTE_TERMINATE_ALWAYS \in trace[4].flags
    /\ last # 0
    /\ exc.type = "SubprocessError"

\* C16: when Build.run has ended, by returning or by an exception of any step,
\* none of its temporary files exists; when the remote invocation starts, the
\* config file and the archive are already deleted.
C16_TemporaryFilesDeleted ==
    /\ pc \in {"main.end", "main.except", "exited"} => tmp = {} /\ ~config_file.exists
    /\ pc = "Build.dispatch" => tmp = {"inventory"} /\ ~config_file.exists
    /\ DispatchIndexes # {} => tmp = {}

C16_Witness ==
    /\ pc = "main.except"
    /\ exc.type = "SubprocessError"
    /\ Len(trace) = 3
    /\ trace[3].prog = "ansible"
    /\ last # 0
    /\ tmp = {}

\* The step of Dispatch.run that chooses and runs the bootstrapper is about to run.
AtBootstrap == pc = "Dispatch.bootstrap"

\* C17 as stated: when podman or docker is on the search path, the bootstrap
\* step of Dispatch.run issues no command.
C17_BootstrapOnlyWithoutEngine ==
    [][(AtBootstrap /\ path \cap {"podman", "docker"} # {}) => trace' = trace]_vars

\* C17, amended: the bootstrap step issues the install command of the first
\* resolvable package manager, dnf before apt-get, whether or not a container
\* engine is on the search path; it issues no command only when neither
\* package manager is resolvable.
C17_BootstrapWheneverUsable ==
    [][AtBootstrap =>
          IF "dnf" \in path
          THEN /\ Len(trace') = Len(trace) + 1
               /\ trace'[Len(trace')].prog = "dnf"
               /\ trace'[Len(trace')].sub = "install"
               /\ trace'[Len(trace')].target = <<"podman">>
          ELSE IF "apt-get" \in path
          THEN /\ Len(trace') = Len(trace) + 1
               /\ trace'[Len(trace')].prog = "apt-get"
               /\ trace'[Len(trace')].sub = "install"
               /\ trace'[Len(trace')].target = <<"docker.io">>
          ELSE trace' = trace]_vars

\* An engine that was on the search path before the bootstrap step (apt-get
\* does not install podman), and the install command issued all the same.
C17_Witness ==
    /\ pc = "Dispatch.link"
    /\ "podman" \in path
    /\ "dnf" \notin path
    /\ Len(trace) = 2
    /\ trace[2].prog = "apt-get"
    /\ trace[2].sub = "install"

\* C18: when Execute.deserialize raises in Dispatch.run (the diagnostic
\* command has succeeded and no instance was returned), the error is a
\* ConfigurationError, and the process exits with status 1 and a fatal message.
C18_OnlyConfigurationError ==
    (/\ pc \in {"main.except", "exited"}
     /\ exc # NoExc
     /\ after = NoInstance
     /\ Len(trace) = 1 /\ last = 0) =>
        /\ exc.type = "ConfigurationError"
        /\ pc = "exited" => exit_status = 1 /\ fatal

\* The step ends with a --version probe that failed: the probe is the last
\* command issued and its status is not 0.
ProbeFailed ==
    /\ Len(trace') > Len(trace)
    /\ trace'[Len(trace')].sub = "--version"
    /\ last' # 0

\* C21: a step in which the --version probe of the first engine access fails
\* ends the running command with the probe's SubprocessError: the error is on
\* its way to main() and no further engine subcommand can follow.
C21_ProbeFailureFatal ==
    [][ProbeFailed => (exc'.type = "SubprocessError" /\ pc' = "main.except")]_vars

\* C22: once Execute.run has looked for the container file in a context
\* directory that holds none or both of the recognised files, the run has
\* failed with a ConfigurationError and no build command is issued.
C22_ContextCheckedBeforeBuild ==
    (/\ command.kind = "execute"
     /\ pc # "Execute.run"
     /\ Cardinality(ContextFiles) # 1) =>
        /\ \A k \in 1..Len(trace) : trace[k].sub # "build"
        /\ pc \in {"main.except", "exited"}
        /\ exc.type = "ConfigurationError"

\* The subcommands given to the container engine so far, the probe left out.
EngineSubcommands ==
    LET issued == SelectSeq(trace, LAMBDA c : c.sub # "--version" /\ c.prog \in Engines)
    IN [k \in 1..Len(issued) |-> issued[k].sub]

\* The commands of a complete Execute.run with the command's flags.
ExecuteSequence ==
    (IF command.login THEN <<"login">> ELSE <<>>) \o <<"build">>
    \o (IF command.push THEN <<"push">> ELSE <<>>)
    \o (IF command.login THEN <<"logout">> ELSE <<>>)

\* C23: the engine commands of Execute.run are a prefix of login, build, push,
\* logout (login and logout only with login, push only with push), or login,
\* build, logout when the build failed; every build has --no-cache; a push
\* directly follows a build that succeeded; a run that returns has issued the
\* whole sequence; and without login no credential is read.
C23_ExecuteOrder ==
    LET subs == EngineSubcommands
    IN /\ \/ /\ Len(subs) <= Len(ExecuteSequence)
             /\ subs = SubSeq(ExecuteSequence, 1, Len(subs))
          \/ command.login /\ subs = <<"login", "build", "logout">>
       /\ \A k \in 1..Len(trace) : trace[k].sub = "build" => "--no-cache" \in trace[k].flags
       /\ \A k \in 1..Len(trace) : trace[k].sub = "push" => (k > 1 /\ trace[k - 1].sub = "build")
       /\ pc = "Execute.push" => (last = 0 /\ trace[Len(trace)].sub = "build")
       /\ pc = "main.end" => subs = ExecuteSequence
       /\ ~command.login => reads = <<>> /\ ~credentials.set

C23_Witness ==
    /\ pc = "exited"
    /\ command.login /\ command.push
    /\ EngineSubcommands = <<"login", "build", "logout">>
    /\ exc.type = "SubprocessError"

\* The step of Build.run a command belongs to.
BuildStep(c) ==
    IF c.prog = "ansible-inventory" THEN "query"
    ELSE IF c.prog = "ansible" THEN "upload"
    ELSE IF c.prog = "ansible-test" /\ "--export" \in c.flags THEN "export"
    ELSE IF c.prog = "ansible-test" /\ "--raw" \in c.flags THEN "dispatch"
    ELSE "none"

\* The external steps of Build.run, in order.
BuildSteps == <<"export", "query", "upload", "dispatch">>

\* C24: whenever Build.run issues a command, it is the next step after the
\* ones already issued in the order export, query, upload, dispatch (so none
\* is issued twice), the command before it exited with status 0 and no error
\* has been raised; a run that returns has issued all four.
C24_BuildStepOrder ==
    [][Len(trace') > Len(trace) =>
          /\ Len(trace') = Len(trace) + 1
          /\ Len(trace') <= Len(BuildSteps)
          /\ \A k \in 1..Len(trace') : BuildStep(trace'[k]) = BuildSteps[k]
          /\ exc = NoExc
          /\ trace # <<>> => last = 0
          /\ pc' = "main.end" => Len(trace') = Len(BuildSteps)]_vars

C24_Witness ==
    /\ pc = "exited"
    /\ exit_status = 1
    /\ Len(trace) = 2
    /\ BuildStep(trace[2]) = "query"
    /\ last # 0

\* The command a step has issued last.
Issued == trace'[Len(trace')]

\* After tags[i] is done: the next tag's rm, or merge() returns.
NextTagOrReturn ==
    IF i < Len(command.tags)
    THEN pc' = "merge.rm" /\ i' = i + 1
    ELSE pc' = "registry_login.exit" /\ exc' = NoExc

\* C25: in every merge() attempt the tags are taken in list order from the
\* first; for each tag a process run by the rm step, whatever its status, is
\* followed by `manifest create` of the same tag from all sources; a failed
\* create leaves merge() and the session body with its SubprocessError, in
\* the first and in the retried attempt, predicted workaround or not, with
\* no later tag processed; `manifest push` of the tag follows a successful
\* create only when push is set; the next tag follows the last command of the
\* tag before it.
C25_MergeSteps ==
    [][/\ (pc' = "merge.rm" /\ pc \notin {"merge.create", "merge.push"}) => i' = 1
       /\ (pc = "merge.rm" /\ Len(trace') > Len(trace)) =>
             /\ Issued.sub \in {"--version", "manifest rm"}
             /\ Issued.sub = "manifest rm" => Issued.target = command.tags[i]
             /\ pc' = "merge.create" /\ i' = i /\ exc' = NoExc
       /\ pc = "merge.create" =>
             /\ Len(trace') = Len(trace) + 1
             /\ Issued.sub = "manifest create"
             /\ Issued.target = command.tags[i]
             /\ Issued.extra = command.sources
             /\ IF last' # 0
                THEN /\ exc'.type = "SubprocessError"
                     /\ pc' = "registry_login.exit"
                     /\ i' = i
                ELSE IF command.push
                THEN pc' = "merge.push" /\ i' = i
                ELSE NextTagOrReturn
       /\ pc = "merge.push" =>
             /\ command.push
             /\ Len(trace') = Len(trace) + 1
             /\ Issued.sub = "manifest push"
             /\ Issued.target = command.tags[i]
             /\ last' = 0 => NextTagOrReturn]_vars

\* A create that failed in the first attempt of a merge whose workaround was
\* predicted, with a tag left unprocessed.
C25_Witness ==
    /\ pc = "registry_login.exit"
    /\ suppress /\ attempt = 1
    /\ i = 1 /\ Len(command.tags) = 2
    /\ trace # <<>>
    /\ trace[Len(trace)].sub = "manifest create"
    /\ last # 0
    /\ exc.type = "SubprocessError"

\* C26: once Dispatch.run has passed its link step (execute.run() is running
\* or has run), the link at ENGINE_LINK points to the engine resolved in this
\* process, whatever was at that path before.
C26_LinkToResolvedEngine ==
    command.kind = "execute" => (engine_link # "" /\ engine_link = _program)

\* The registry passwords the process holds: in the environment, in the
\* command, in the deserialized instance and in the credentials.
HeldPasswords ==
    ({command.password, after.password, credentials.password}
     \cup (IF PASSWORD \in DOMAIN environ THEN {environ[PASSWORD]} ELSE {})
     \cup sensitive) \ {<<>>}

\* The arguments of a command that are data of the run (the other arguments
\* are literals of the program): the image, server or host, the further
\* arguments and the user name.
DataArguments(c) == {c.target, c.username} \cup Range(c.extra)

\* C27: no external process is started with a password the process holds as
\* one of its arguments (so no command line shown for it holds one); only the
\* login command is given data on its standard input, and that data is the
\* password of the credentials.
C27_PasswordNeverArgument ==
    \A k \in 1..Len(trace) :
        /\ DataArguments(trace[k]) \cap HeldPasswords = {}
        /\ trace[k].data # <<>> => trace[k].sub = "login"
        /\ trace[k].sub = "login" => trace[k].data = credentials.password

C27_Witness ==
    /\ pc = "exited"
    /\ command.kind = "execute"
    /\ after # NoInstance
    /\ \E k \in 1..Len(trace) :
          trace[k].sub = "login" /\ trace[k].data \in HeldPasswords

\* A credential variable is not set in the environment.
CredentialUnset == USERNAME \notin DOMAIN environ \/ PASSWORD \notin DOMAIN environ

\* C28: in a Build with login and a credential variable unset, no external
\* command is ever issued and no temporary file ever exists; once Build.run
\* has started, it has failed with MissingEnvVarError, and the process exits
\* with status 1 and a fatal message.
C28_BuildFailsBeforeProvisioning ==
    (command.kind = "build" /\ command.login /\ CredentialUnset) =>
        /\ trace = <<>>
        /\ tmp = {}
        /\ ~config_file.exists
        /\ pc \in {"parse_args", "Build.run", "main.except", "exited"}
        /\ pc \in {"main.except", "exited"} =>
              (exc.type = "MissingEnvVarError" /\ reads = <<"Build.run">>)
        /\ pc = "exited" => (exit_status = 1 /\ fatal)

C28_Witness ==
    /\ pc = "exited"
    /\ command.kind = "build"
    /\ command.login
    /\ PASSWORD \notin DOMAIN environ
    /\ USERNAME \in DOMAIN environ
    /\ path = AnsibleTools
    /\ exc.type = "MissingEnvVarError"
    /\ exc.name = PASSWORD

\* C29: when a Build without keep_instance has ended before its remote
\* dispatch command was issued, it has ended with an error and none of the
\* commands it issued asked for the instance to be terminated.
C29_NoTerminationAfterEarlyFailure ==
    (/\ command.kind = "build" /\ ~command.keep_instance
     /\ pc \in {"main.except", "exited"}
     /\ DispatchIndexes = {}) =>
        /\ exc # NoExc
        /\ \A k \in 1..Len(trace) : REMOTE_TERMINATE_ALWAYS \notin trace[k].flags

\* The instance was provisioned (the export succeeded) and the upload failed.
C29_Witness ==
    /\ pc = "exited"
    /\ ~command.keep_instance
    /\ Len(trace) = 3
    /\ BuildStep(trace[3]) = "upload"
    /\ last # 0
    /\ exc.type = "SubprocessError"
    /\ \A k \in 1..Len(trace) : REMOTE_TERMINATE_ALWAYS \notin trace[k].flags

\* The process has ended, or is about to, with the login as its last command.
EndedAtLogin ==
    /\ pc \in {"main.except", "exited"}
    /\ trace # <<>>
    /\ trace[Len(trace)].sub = "login"

\* C30: a step of registry_login's entry in which a process fails (the login,
\* or the probe before it) sends its SubprocessError to main() without
\* entering the body; and a process that ends with the login as its last
\* command has a failed login behind it, has issued no logout and no command
\* of the body, and ends with the SubprocessError.
C30_FailedLoginSkipsBodyAndLogout ==
    [][/\ (pc = "registry_login.enter" /\ Len(trace') > Len(trace) /\ last' # 0) =>
              /\ pc' = "main.except"
              /\ exc'.type = "SubprocessError"
              /\ attempt' = 0
       /\ EndedAtLogin' =>
              /\ last' # 0
              /\ exc'.type = "SubprocessError"
              /\ EngineSubcommands' = <<"login">>
              /\ attempt' = 0]_vars

C30_Witness ==
    /\ pc = "exited"
    /\ credentials.set
    /\ EngineSubcommands = <<"login">>
    /\ last # 0
    /\ exit_status = 1 /\ fatal

\* The process has exited after a logout that failed.
ExitedAfterFailedLogout ==
    /\ pc = "exited"
    /\ trace # <<>>
    /\ trace[Len(trace)].sub = "logout"
    /\ last # 0

\* C31: a step of registry_login's finally clause in which the logout fails
\* sends the logout's SubprocessError to main(), whether the body returned or
\* raised (its own error is replaced); the process then exits with status 1
\* and a fatal message.
C31_FailedLogoutDecides ==
    [][/\ (pc = "registry_login.exit" /\ Len(trace') > Len(trace) /\ last' # 0) =>
              /\ Issued.sub = "logout"
              /\ exc'.type = "SubprocessError"
              /\ pc' = "main.except"
       /\ ExitedAfterFailedLogout' =>
              /\ exc'.type = "SubprocessError"
              /\ exit_status' = 1
              /\ fatal']_vars

\* A merge whose only attempt returned, and a logout that failed after it.
C31_Witness ==
    /\ ExitedAfterFailedLogout
    /\ command.kind = "merge"
    /\ results = <<"ok">>
    /\ exit_status = 1

\* C32: when the workaround is enabled and the first merge() call returned,
\* Merge.run leaves the session body after that single call: no source image
\* is pulled or pushed, each tag has been created and pushed once, merge() is
\* not called again, and with credentials the logout is the last command of
\* the run.
C32_SingleAttemptWhenFirstSucceeds ==
    (command.kind = "merge" /\ suppress /\ results # <<>> /\ results[1] = "ok") =>
        /\ results = <<"ok">>
        /\ attempt = 1
        /\ pc \in {"registry_login.exit", "main.except", "main.end", "exited"}
        /\ Indexes({"pull", "push"}) = {}
        /\ Cardinality(Indexes({"manifest create"})) = Len(command.tags)
        /\ Cardinality(Indexes({"manifest push"})) = Len(command.tags)
        /\ LeftRun =>
             IF credentials.set
             THEN /\ Cardinality(Indexes({"logout"})) = 1
                  /\ trace[Len(trace)].sub = "logout"
             ELSE Indexes({"logout"}) = {}

\* A merge across two repositories, logged in, whose first attempt pushed
\* every manifest list: the run is over with status 0 and the logout issued.
C32_Witness ==
    /\ command.kind = "merge"
    /\ suppress
    /\ credentials.set
    /\ Len(command.tags) > 1
    /\ results = <<"ok">>
    /\ pc = "exited"
    /\ exit_status = 0
    /\ trace[Len(trace)].sub = "logout"

\* The last command of apply_work_around in the trace (0 when it never ran):
\* the commands of the last merge() call come after it.
LastAttemptStart ==
    LET moved == Indexes({"pull", "push"})
    IN IF moved = {} THEN 0 ELSE CHOOSE k \in moved : \A m \in moved : m <= k

\* The manifest create and manifest push commands of the last merge() call.
LastAttempt ==
    LET IsStep(c) == c.sub \in {"manifest create", "manifest push"}
    IN SelectSeq(SubSeq(trace, LastAttemptStart + 1, Len(trace)), IsStep)

\* Merge.run returned without an exception and the process ended with status 0.
ReturnedNormally == pc \in {"main.end", "exited"} /\ exc = NoExc

\* C33: when Merge.run with push returns normally, the last merge() call has,
\* for each tag in list order, created the manifest list from all sources and
\* then pushed it, and nothing else; this holds for the single attempt and
\* for the retry after the workaround, which starts again at the first tag.
C33_LastAttemptCoversEveryTag ==
    (command.kind = "merge" /\ command.push /\ ReturnedNormally) =>
        /\ Len(LastAttempt) = 2 * Len(command.tags)
        /\ \A k \in 1..Len(command.tags) :
             /\ LastAttempt[2 * k - 1].sub = "manifest create"
             /\ LastAttempt[2 * k - 1].target = command.tags[k]
             /\ LastAttempt[2 * k - 1].extra = command.sources
             /\ LastAttempt[2 * k].sub = "manifest push"
             /\ LastAttempt[2 * k].target = command.tags[k]
        /\ results[Len(results)] = "ok"
        /\ Len(results) = attempt

\* A merge of two tags whose first attempt pushed the first tag and failed at
\* the push of the second, and whose retry after the workaround succeeded.
C33_Witness ==
    /\ command.kind = "merge"
    /\ command.push
    /\ Len(command.tags) = 2
    /\ results = <<"ManifestPushError", "ok">>
    /\ Cardinality({k \in Indexes({"manifest push"}) : k < LastAttemptStart}) = 2
    /\ pc = "exited"
    /\ exit_status = 0

\* The config file of the payload is missing or cannot be made into an
\* Execute instance in the environment of the process.
ConfigRejected == Execute_deserialize(config_file, environ).exc # NoExc

\* Only the host diagnostic command has been issued and no engine is resolved.
OnlyDiagnostic ==
    /\ Len(trace) <= 1
    /\ \A k \in 1..Len(trace) : trace[k].prog = "uname"
    /\ _program = ""

\* C34: Dispatch.run deserializes the config before the bootstrapper runs and
\* before the engine is resolved: the bootstrap step is entered only with the
\* deserialized instance, and a dispatch whose config is missing or malformed
\* raises at the deserialization and ends with no package-install command, no
\* engine command, no engine resolved and the engine link left as it was.
C34_ConfigBeforeBootstrap ==
    [][command.kind = "dispatch" =>
          /\ pc' = "Dispatch.bootstrap" =>
                (pc = "Dispatch.deserialize" /\ after' # NoInstance /\ OnlyDiagnostic')
          /\ pc' = "Dispatch.link" => after' # NoInstance
          /\ ConfigRejected =>
                /\ OnlyDiagnostic'
                /\ engine_link' = engine_link
                /\ command' = command
                /\ after' = NoInstance
                /\ pc' \in {"Dispatch.run", "Dispatch.deserialize", "main.except", "exited"}
                /\ pc = "Dispatch.deserialize" => (pc' = "main.except" /\ exc' # NoExc)]_vars

\* A dispatch without a config file on a host with a package manager and a
\* container engine: it ended after the diagnostic command, nothing installed,
\* nothing linked.
C34_Witness ==
    /\ command.kind = "dispatch"
    /\ ~config_file.exists
    /\ ConfigRejected
    /\ path \cap Range(PackageManagers) # {}
    /\ path \cap Engines # {}
    /\ pc = "exited"
    /\ exit_status = 1
    /\ Len(trace) = 1 /\ trace[1].prog = "uname" /\ last = 0
    /\ engine_link = ""

====
